---- MODULE Spec2Model ----
(***************************************************************************)
(* A model of the ooohh persistence and aggregation service                *)
(* (pkg/service/service.go): dials and boards kept in two bolt buckets,    *)
(* msgpack-encoded, behind read-only and read-write transactions.          *)
(*                                                                         *)
(* Callers are processes.  A call is split at the points where bolt lets   *)
(* another caller in: the call begins its transaction (a read-write        *)
(* transaction takes the database's single writer lock, a read-only one    *)
(* takes a snapshot), then runs its body on that transaction and commits   *)
(* or rolls back.  GetBoard additionally yields between its per-dial       *)
(* lookups, each of which is a GetDial in a transaction of its own.        *)
(***************************************************************************)
EXTENDS Integers, Sequences, FiniteSets, TLC

\* ------------------------------------------------------------------ bounds

\* Number of dials CreateDial may create.
MaxDials == 2
\* Number of boards CreateBoard may create.
MaxBoards == 1
\* Longest reference list handed to SetBoard.
MaxRefs == 2
\* Last instant the injected clock reaches.
MaxTime == 2

\* Callers of the sequential specification and of the concurrent one.
SeqProcs == {1}
ConcProcs == {1, 2}
Procs == ConcProcs

\* ------------------------------------------------------------- input sets

\* Tokens dials and boards are created with, and tokens callers present.
OwnerTokens == {"MYTOKEN"}
Tokens == {"MYTOKEN", "NOTMYTOKEN"}
DialNames == {"TEST-DIAL"}
BoardNames == {"TEST-BOARD"}
\* Values handed to SetDial (float64 in the source; no range check in the core).
Values == {33, 67}
\* Zones the injected clock may report its instant in.
Zones == {"UTC", "My/Zone"}

\* ksuid.New().String(): the n-th identifier generated, a non-empty string.
NewID(n) == "k" \o ToString(n)

\* Identifiers callers may name: every one CreateDial / CreateBoard can hand out.
DialIDs == {NewID(n) : n \in 1..MaxDials}
BoardIDs == {NewID(n) : n \in 1..MaxBoards}

\* Sequences over S of length at most n.
SeqsUpTo(S, n) == UNION {[1..k -> S] : k \in 0..n}

\* ------------------------------------------------------------------ errors

NoErr == "nil"
ErrUnauthorized == "unauthorized"
ErrDialNotFound == "dial not found"
ErrBoardNotFound == "board not found"
\* Low-level errors, wrapped: a failed db.Begin, bucket creation, Put, Commit.
ErrBegin == "beginning transaction"
ErrBucket == "creating bucket"
ErrStoring == "storing"
ErrCommit == "commit"

\* ----------------------------------------------------------- time and codec

\* time.Time: an instant and the location it is expressed in.
ZeroInst == 0
Time(i, l) == [inst |-> i, loc |-> l]
ZeroTime == Time(ZeroInst, "UTC")

\* time.Time.UTC(): same instant, location UTC.
UTC(t) == [t EXCEPT !.loc = "UTC"]

\* ooohh.Dial{ID: id}: every other field at its zero value.
MinimalDial(id) ==
    [ID |-> id, Token |-> "", Name |-> "", Value |-> 0, UpdatedAt |-> ZeroTime]

\* msgpack.Marshal of a Dial: every field is written; a time is written as
\* its instant only (seconds and nanoseconds), without its location.
MarshalDial(d) ==
    [ID |-> d.ID, Token |-> d.Token, Name |-> d.Name, Value |-> d.Value,
     UpdatedAt |-> d.UpdatedAt.inst]

\* msgpack.Unmarshal into a Dial: a time is rebuilt from its instant in the
\* local zone.
UnmarshalDial(v) ==
    [ID |-> v.ID, Token |-> v.Token, Name |-> v.Name, Value |-> v.Value,
     UpdatedAt |-> Time(v.UpdatedAt, "Local")]

\* msgpack.Marshal of a Board: its Dials are marshalled one by one.
MarshalBoard(b) ==
    [ID |-> b.ID, Token |-> b.Token, Name |-> b.Name,
     Dials |-> [i \in 1..Len(b.Dials) |-> MarshalDial(b.Dials[i])],
     UpdatedAt |-> b.UpdatedAt.inst]

UnmarshalBoard(v) ==
    [ID |-> v.ID, Token |-> v.Token, Name |-> v.Name,
     Dials |-> [i \in 1..Len(v.Dials) |-> UnmarshalDial(v.Dials[i])],
     UpdatedAt |-> Time(v.UpdatedAt, "Local")]

\* ------------------------------------------------------------------- store

\* A bucket is a function from the keys it holds to their values.
EmptyBucket == <<>>
Has(bkt, k) == k \in DOMAIN bkt
\* Bucket.Put: insert or overwrite.
Put(bkt, k, v) == [x \in (DOMAIN bkt) \cup {k} |-> IF x = k THEN v ELSE bkt[x]]

NoProc == 0
NoTx == [open |-> FALSE]
NoOp == [name |-> "none"]
NoRes == [err |-> "none"]

VARIABLES
    db,        \* committed contents: [dials |-> bucket, boards |-> bucket]
    writer,    \* the process holding the writer lock, or NoProc
    clock,     \* the instant the injected clock reports now
    nextDial,  \* dial identifiers generated so far
    nextBoard, \* board identifiers generated so far
    pc,        \* per process: "idle", "wait", "txn", "loop", "done"
    op,        \* per process: the call in progress (or last finished)
    tx,        \* per process: the open transaction's view of the store
    cur,       \* per process: GetBoard's board, position and resolved dials
    res,       \* per process: what the last finished call returned
    logs,      \* per process: the "GetDial error" records of its call
    waited,    \* per process: its db.Begin(true) had to wait for a writer
    cancelled, \* per process: the context it passes to its calls is cancelled
    fault,     \* the storage call that fails at present, or NoFault
    remap,     \* the process whose commit waits to remap the data file
    req,       \* per process: the HTTP request or Slack call it is serving
    resp,      \* per process: the response or result of the last one served
    users,     \* the slack_users bucket: user key -> dial id
    \* History of the calls that succeeded, kept for stating properties only:
    created,   \* dial id -> the dial CreateDial returned
    lastSet,   \* dial id -> value and instant of the last successful SetDial
    madeBoard, \* board id -> the board CreateBoard returned
    lastRefs,  \* board id -> the list given to the last successful SetBoard,
               \*             and whether it replaced a non-empty list
    setSince,  \* board id -> dials set since the board's last SetBoard
    firstDial, \* (team, user) -> the dial the pair's first successful Slack
               \*                 SetDialValue set its value on
    begun,     \* per process: the transactions its call in progress (or last
               \*              finished) has begun and closed so far
    written    \* dial id -> the (value, instant) pairs committed for the
               \*            dial, for the dials whose writes are recorded

past == <<created, lastSet, madeBoard, lastRefs, setSince, firstDial, written>>
hist == <<past, begun>>
env == <<cancelled, fault, remap>>
outer == <<req, resp, users>>
vars == <<db, writer, clock, nextDial, nextBoard, pc, op, tx, cur, res, logs,
          waited, env, outer, hist>>

NoCur == [open |-> FALSE]
NilVal == [nil |-> TRUE]

\* The storage calls that can fail, by the call that fails.
NoFault == "none"
FailBegin == "Begin"
FailBucketDials == "CreateBucketIfNotExists(dials)"
FailBucketBoards == "CreateBucketIfNotExists(boards)"
FailPut == "Put"
FailCommit == "Commit"

NoReq == [handler |-> "none", stage |-> "none"]
NoResp == [status |-> 0]
\* A call that has begun no transaction yet: read-only ones begun, read-write
\* ones begun, db.Begin calls that failed, transactions closed.
NoTxs == [ro |-> 0, rw |-> 0, failed |-> 0, closed |-> 0]
Faults == {FailBegin, FailBucketDials, FailBucketBoards, FailPut, FailCommit}

Init ==
    /\ db = [dials |-> EmptyBucket, boards |-> EmptyBucket]
    /\ writer = NoProc
    /\ clock = 1
    /\ nextDial = 0
    /\ nextBoard = 0
    /\ pc = [p \in Procs |-> "idle"]
    /\ op = [p \in Procs |-> NoOp]
    /\ tx = [p \in Procs |-> NoTx]
    /\ cur = [p \in Procs |-> NoCur]
    /\ res = [p \in Procs |-> NoRes]
    /\ logs = [p \in Procs |-> <<>>]
    /\ waited = [p \in Procs |-> FALSE]
    /\ cancelled = [p \in Procs |-> FALSE]
    /\ fault = NoFault
    /\ remap = NoProc
    /\ req = [p \in Procs |-> NoReq]
    /\ resp = [p \in Procs |-> NoResp]
    /\ users = EmptyBucket
    /\ created = EmptyBucket
    /\ lastSet = EmptyBucket
    /\ madeBoard = EmptyBucket
    /\ lastRefs = EmptyBucket
    /\ setSince = EmptyBucket
    /\ firstDial = EmptyBucket
    /\ begun = [p \in Procs |-> NoTxs]
    /\ written = EmptyBucket

\* ------------------------------------------------------------ transactions

\* db.Begin(true) that does not wait for the writer in flight.
CanBeginRWUnlocked(w) == TRUE

\* db.Begin(true) returns once no other read-write transaction is in flight.
CanBeginRW(w) == w = NoProc

\* db.Begin(false) takes the read lock of the data file's memory map and
\* keeps it until the transaction is closed; it waits while a commit that
\* has to remap the file is waiting for the write lock (sync.RWMutex lets no
\* new reader in once a writer waits).
CanBeginRO == remap = NoProc

\* No read-only transaction is open: the remapping commit gets its lock.
NoReadTx == \A q \in Procs : ~(tx[q].open /\ writer # q)

\* db.Begin: the transaction works on the committed contents as of now.
BeginTx(view) == [open |-> TRUE, dials |-> view.dials, boards |-> view.boards]

\* What txn.Commit() makes the committed contents: the transaction's view.
Committed(t) == [dials |-> t.dials, boards |-> t.boards]

\* s.now(): the clock's instant in whatever zone the injected clock reports.
Now == {Time(clock, z) : z \in Zones}

\* ---------------------------------------------------- bodies of operations
\* Each takes the transaction's view t and returns the error, the value
\* handed back and the view as the body leaves it.

Outcome(e, v, t) == [err |-> e, val |-> v, view |-> t]

\* CreateDial storing the clock's time as reported, zone included.
CreateDialTxnLocalZone(t, id, name, token, now) ==
    LET d == [ID |-> id, Token |-> token, Name |-> name, Value |-> 0,
              UpdatedAt |-> now]
    IN  Outcome(NoErr, d, [t EXCEPT !.dials = Put(@, id, MarshalDial(d))])

CreateDialTxn(t, id, name, token, now) ==
    LET d == [ID |-> id, Token |-> token, Name |-> name, Value |-> 0,
              UpdatedAt |-> UTC(now)]
    IN  Outcome(NoErr, d, [t EXCEPT !.dials = Put(@, id, MarshalDial(d))])

\* GetDial handing back the time as decoded, without renormalizing it.
GetDialTxnAsDecoded(t, id) ==
    IF ~Has(t.dials, id)
    THEN Outcome(ErrDialNotFound, NilVal, t)
    ELSE Outcome(NoErr, UnmarshalDial(t.dials[id]), t)

GetDialTxn(t, id) ==
    IF ~Has(t.dials, id)
    THEN Outcome(ErrDialNotFound, NilVal, t)
    ELSE LET d == UnmarshalDial(t.dials[id])
         IN  Outcome(NoErr, [d EXCEPT !.UpdatedAt = UTC(@)], t)

\* SetDial without the token check.
SetDialTxnNoAuth(t, id, token, value, now) ==
    IF ~Has(t.dials, id)
    THEN Outcome(ErrDialNotFound, NilVal, t)
    ELSE LET d == UnmarshalDial(t.dials[id])
             d2 == [d EXCEPT !.Value = value, !.UpdatedAt = UTC(now)]
         IN  Outcome(NoErr, NilVal,
                     [t EXCEPT !.dials = Put(@, id, MarshalDial(d2))])

\* SetDial checking the token of whatever it decoded before it checks that
\* the dial exists: a missing dial decodes to the zero Dial.
SetDialTxnAuthFirst(t, id, token, value, now) ==
    LET d == IF Has(t.dials, id) THEN UnmarshalDial(t.dials[id])
             ELSE MinimalDial("")
    IN  IF token # d.Token
        THEN Outcome(ErrUnauthorized, NilVal, t)
        ELSE IF ~Has(t.dials, id)
             THEN Outcome(ErrDialNotFound, NilVal, t)
             ELSE LET d2 == [d EXCEPT !.Value = value, !.UpdatedAt = UTC(now)]
                  IN  Outcome(NoErr, NilVal,
                              [t EXCEPT !.dials = Put(@, id, MarshalDial(d2))])

\* SetDial that updates the value and leaves updated_at as it was.
SetDialTxnStaleTime(t, id, token, value, now) ==
    IF ~Has(t.dials, id)
    THEN Outcome(ErrDialNotFound, NilVal, t)
    ELSE LET d == UnmarshalDial(t.dials[id])
         IN  IF token # d.Token
             THEN Outcome(ErrUnauthorized, NilVal, t)
             ELSE LET d2 == [d EXCEPT !.Value = value]
                  IN  Outcome(NoErr, NilVal,
                              [t EXCEPT !.dials = Put(@, id, MarshalDial(d2))])

\* SetDial storing a record built anew from its arguments: the name is lost.
SetDialTxnFresh(t, id, token, value, now) ==
    IF ~Has(t.dials, id)
    THEN Outcome(ErrDialNotFound, NilVal, t)
    ELSE LET d == UnmarshalDial(t.dials[id])
         IN  IF token # d.Token
             THEN Outcome(ErrUnauthorized, NilVal, t)
             ELSE LET d2 == [MinimalDial(id) EXCEPT !.Token = token,
                                 !.Value = value, !.UpdatedAt = UTC(now)]
                  IN  Outcome(NoErr, NilVal,
                              [t EXCEPT !.dials = Put(@, id, MarshalDial(d2))])

\* SetDial moving the updated_at of every board that refers to the dial.
SetDialTxnTouchesBoards(t, id, token, value, now) ==
    IF ~Has(t.dials, id)
    THEN Outcome(ErrDialNotFound, NilVal, t)
    ELSE LET d == UnmarshalDial(t.dials[id])
         IN  IF token # d.Token
             THEN Outcome(ErrUnauthorized, NilVal, t)
             ELSE LET d2 == [d EXCEPT !.Value = value, !.UpdatedAt = UTC(now)]
                      Refers(b) == \E i \in 1..Len(t.boards[b].Dials) :
                                      t.boards[b].Dials[i].ID = id
                  IN  Outcome(NoErr, NilVal,
                              [t EXCEPT !.dials = Put(@, id, MarshalDial(d2)),
                                        !.boards = [b \in DOMAIN @ |->
                                           IF Refers(b)
                                           THEN [@[b] EXCEPT !.UpdatedAt = now.inst]
                                           ELSE @[b]]])

SetDialTxn(t, id, token, value, now) ==
    IF ~Has(t.dials, id)
    THEN Outcome(ErrDialNotFound, NilVal, t)
    ELSE LET d == UnmarshalDial(t.dials[id])
         IN  IF token # d.Token
             THEN Outcome(ErrUnauthorized, NilVal, t)
             ELSE LET d2 == [d EXCEPT !.Value = value, !.UpdatedAt = UTC(now)]
                  IN  Outcome(NoErr, NilVal,
                              [t EXCEPT !.dials = Put(@, id, MarshalDial(d2))])

\* CreateBoard leaving updated_at at its zero value.
CreateBoardTxnNoTime(t, id, name, token, now) ==
    LET b == [ID |-> id, Token |-> token, Name |-> name, Dials |-> <<>>,
              UpdatedAt |-> ZeroTime]
    IN  Outcome(NoErr, b, [t EXCEPT !.boards = Put(@, id, MarshalBoard(b))])

CreateBoardTxn(t, id, name, token, now) ==
    LET b == [ID |-> id, Token |-> token, Name |-> name, Dials |-> <<>>,
              UpdatedAt |-> UTC(now)]
    IN  Outcome(NoErr, b, [t EXCEPT !.boards = Put(@, id, MarshalBoard(b))])

\* The first part of GetBoard: the board as stored.
GetBoardTxn(t, id) ==
    IF ~Has(t.boards, id)
    THEN Outcome(ErrBoardNotFound, NilVal, t)
    ELSE Outcome(NoErr, UnmarshalBoard(t.boards[id]), t)

\* SetBoard appending the given list to the stored one.
SetBoardTxnAppend(t, id, token, dials, now) ==
    IF ~Has(t.boards, id)
    THEN Outcome(ErrBoardNotFound, NilVal, t)
    ELSE LET b == UnmarshalBoard(t.boards[id])
         IN  IF token # b.Token
             THEN Outcome(ErrUnauthorized, NilVal, t)
             ELSE LET allDials == [i \in 1..Len(dials) |-> MinimalDial(dials[i])]
                      b2 == [b EXCEPT !.Dials = @ \o allDials,
                                      !.UpdatedAt = UTC(now)]
                  IN  Outcome(NoErr, NilVal,
                              [t EXCEPT !.boards = Put(@, id, MarshalBoard(b2))])

\* SetBoard storing each dial that exists as it is at the time of the call.
SetBoardTxnSnapshots(t, id, token, dials, now) ==
    IF ~Has(t.boards, id)
    THEN Outcome(ErrBoardNotFound, NilVal, t)
    ELSE LET b == UnmarshalBoard(t.boards[id])
         IN  IF token # b.Token
             THEN Outcome(ErrUnauthorized, NilVal, t)
             ELSE LET allDials == [i \in 1..Len(dials) |->
                                     IF Has(t.dials, dials[i])
                                     THEN UnmarshalDial(t.dials[dials[i]])
                                     ELSE MinimalDial(dials[i])]
                      b2 == [b EXCEPT !.Dials = allDials, !.UpdatedAt = UTC(now)]
                  IN  Outcome(NoErr, NilVal,
                              [t EXCEPT !.boards = Put(@, id, MarshalBoard(b2))])

SetBoardTxn(t, id, token, dials, now) ==
    IF ~Has(t.boards, id)
    THEN Outcome(ErrBoardNotFound, NilVal, t)
    ELSE LET b == UnmarshalBoard(t.boards[id])
         IN  IF token # b.Token
             THEN Outcome(ErrUnauthorized, NilVal, t)
             ELSE LET allDials == [i \in 1..Len(dials) |-> MinimalDial(dials[i])]
                      b2 == [b EXCEPT !.Dials = allDials, !.UpdatedAt = UTC(now)]
                  IN  Outcome(NoErr, NilVal,
                              [t EXCEPT !.boards = Put(@, id, MarshalBoard(b2))])

\* ----------------------------------------------------------------- actions

\* The committed writes of dial id with one more, if the dial's are recorded.
Record(w, id, value, at) ==
    IF Has(w, id) THEN [w EXCEPT ![id] = @ \cup {[Value |-> value, At |-> at]}]
    ELSE w

CanCall(p) == pc[p] \in {"idle", "done"}

\* A call starts: its arguments are fixed and it asks for its transaction.
\* A read-write transaction that cannot begin yet leaves the caller waiting.
\* A db.Begin that fails makes the call return its wrapped error at once.
Enter(p, call, rw) ==
    /\ rw \/ CanBeginRO
    /\ op' = [op EXCEPT ![p] = call]
    /\ logs' = [logs EXCEPT ![p] = <<>>]
    /\ cur' = [cur EXCEPT ![p] = NoCur]
    /\ IF rw /\ ~CanBeginRW(writer)
       THEN /\ pc' = [pc EXCEPT ![p] = "wait"]
            /\ tx' = [tx EXCEPT ![p] = NoTx]
            /\ res' = [res EXCEPT ![p] = NoRes]
            /\ waited' = [waited EXCEPT ![p] = TRUE]
            /\ begun' = [begun EXCEPT ![p] = NoTxs]
            /\ UNCHANGED writer
       ELSE IF fault = FailBegin
       THEN /\ pc' = [pc EXCEPT ![p] = "done"]
            /\ tx' = [tx EXCEPT ![p] = NoTx]
            /\ res' = [res EXCEPT ![p] = [err |-> ErrBegin, val |-> NilVal]]
            /\ waited' = [waited EXCEPT ![p] = FALSE]
            /\ begun' = [begun EXCEPT ![p] = [NoTxs EXCEPT !.failed = 1]]
            /\ UNCHANGED writer
       ELSE /\ pc' = [pc EXCEPT ![p] = "txn"]
            /\ tx' = [tx EXCEPT ![p] = BeginTx(db)]
            /\ res' = [res EXCEPT ![p] = NoRes]
            /\ waited' = [waited EXCEPT ![p] = FALSE]
            /\ begun' = [begun EXCEPT ![p] = IF rw THEN [NoTxs EXCEPT !.rw = 1]
                                                 ELSE [NoTxs EXCEPT !.ro = 1]]
            /\ writer' = IF rw THEN p ELSE writer
    /\ UNCHANGED <<db, clock, env, outer, past>>

\* A waiting db.Begin(true) returns.
AcquireRW(p) ==
    /\ pc[p] = "wait"
    /\ CanBeginRW(writer)
    /\ IF fault = FailBegin
       THEN /\ pc' = [pc EXCEPT ![p] = "done"]
            /\ res' = [res EXCEPT ![p] = [err |-> ErrBegin, val |-> NilVal]]
            /\ begun' = [begun EXCEPT ![p].failed = @ + 1]
            /\ UNCHANGED <<tx, writer>>
       ELSE /\ pc' = [pc EXCEPT ![p] = "txn"]
            /\ tx' = [tx EXCEPT ![p] = BeginTx(db)]
            /\ writer' = p
            /\ begun' = [begun EXCEPT ![p].rw = @ + 1]
            /\ UNCHANGED res
    /\ UNCHANGED <<db, clock, nextDial, nextBoard, op, cur, logs, waited, env,
                   outer, past>>

\* The end of a read-write call that rolls nothing back: a body that
\* returns an error leaves its transaction open.
LeaveNoRollback(p, o) ==
    /\ (remap = p /\ o.err = NoErr) => NoReadTx
    /\ remap' = NoProc
    /\ db' = IF o.err = NoErr THEN Committed(o.view) ELSE db
    /\ writer' = IF o.err = NoErr THEN NoProc ELSE writer
    /\ tx' = IF o.err = NoErr THEN [tx EXCEPT ![p] = NoTx] ELSE tx
    /\ begun' = IF o.err = NoErr THEN [begun EXCEPT ![p].closed = @ + 1]
                ELSE begun
    /\ res' = [res EXCEPT ![p] = [err |-> o.err, val |-> o.val]]
    /\ pc' = [pc EXCEPT ![p] = "done"]
    /\ UNCHANGED <<clock, nextDial, nextBoard, op, cur, logs, waited,
                   cancelled, fault, outer>>

\* The end of a read-write call: on success txn.Commit(), otherwise the
\* deferred txn.Rollback(); either way the writer lock is released.  A
\* commit that has to remap the data file first waits until no read-only
\* transaction is open.
Leave(p, o) ==
    /\ (remap = p /\ o.err = NoErr) => NoReadTx
    /\ remap' = NoProc
    /\ db' = IF o.err = NoErr THEN Committed(o.view) ELSE db
    /\ writer' = NoProc
    /\ tx' = [tx EXCEPT ![p] = NoTx]
    /\ begun' = [begun EXCEPT ![p].closed = @ + 1]
    /\ res' = [res EXCEPT ![p] = [err |-> o.err, val |-> o.val]]
    /\ pc' = [pc EXCEPT ![p] = "done"]
    /\ UNCHANGED <<clock, nextDial, nextBoard, op, cur, logs, waited,
                   cancelled, fault, outer>>

\* A failing Put reported as the dial not being there.
FinishPutNotFound(p, o) ==
    IF o.err # NoErr THEN o
    ELSE IF fault = FailPut THEN Outcome(ErrDialNotFound, NilVal, tx[p])
    ELSE IF fault = FailCommit THEN Outcome(ErrCommit, o.val, tx[p])
    ELSE o

\* What a read-write body's outcome o becomes at the store: a body that got
\* as far as its Put returns the wrapped error if the Put fails; one that got
\* to return v, txn.Commit() returns v together with Commit's error if the
\* commit fails, and nothing is committed.
Finish(p, o) ==
    IF o.err # NoErr THEN o
    ELSE IF fault = FailPut THEN Outcome(ErrStoring, NilVal, tx[p])
    ELSE IF fault = FailCommit THEN Outcome(ErrCommit, o.val, tx[p])
    ELSE o

\* The transactions of p's call after this step's s.GetDial, if the step is
\* a turn of GetBoard's loop: the lookup begins a read-only transaction and
\* closes it before it returns, unless its db.Begin fails.
InnerTx(p) ==
    IF pc[p] # "loop" THEN begun[p]
    ELSE IF fault = FailBegin THEN [begun[p] EXCEPT !.failed = @ + 1]
    ELSE [begun[p] EXCEPT !.ro = @ + 1, !.closed = @ + 1]

\* The end of a read-only call, GetBoard storing the board with the
\* references it resolved only.
LeaveROPrunes(p, e, v) ==
    /\ tx' = [tx EXCEPT ![p] = NoTx]
    /\ res' = [res EXCEPT ![p] = [err |-> e, val |-> v]]
    /\ pc' = [pc EXCEPT ![p] = "done"]
    /\ db' = IF op[p].name = "GetBoard" /\ e = NoErr
             THEN [db EXCEPT !.boards = Put(@, v.ID,
                      [@[v.ID] EXCEPT !.Dials =
                          [i \in 1..Len(v.Dials) |->
                              MarshalDial(MinimalDial(v.Dials[i].ID))]])]
             ELSE db
    /\ begun' = [begun EXCEPT ![p] = [InnerTx(p) EXCEPT !.closed = @ + 1]]
    /\ UNCHANGED <<writer, clock, nextDial, nextBoard, op, waited, env, outer,
                   past>>

\* The end of a read-only call: the deferred txn.Rollback().
LeaveRO(p, e, v) ==
    /\ tx' = [tx EXCEPT ![p] = NoTx]
    /\ res' = [res EXCEPT ![p] = [err |-> e, val |-> v]]
    /\ pc' = [pc EXCEPT ![p] = "done"]
    /\ begun' = [begun EXCEPT ![p] = [InnerTx(p) EXCEPT !.closed = @ + 1]]
    /\ UNCHANGED <<db, writer, clock, nextDial, nextBoard, op, waited, env,
                   outer, past>>

CallCreateDial(p, name, token) ==
    /\ CanCall(p)
    /\ nextDial < MaxDials
    /\ nextDial' = nextDial + 1
    /\ UNCHANGED nextBoard
    /\ Enter(p, [name |-> "CreateDial", id |-> NewID(nextDial + 1),
                 dname |-> name, token |-> token], TRUE)

CreateDial(p) ==
    /\ pc[p] = "txn"
    /\ op[p].name = "CreateDial"
    /\ \E now \in Now :
          LET o == Finish(p, CreateDialTxn(tx[p], op[p].id, op[p].dname,
                                           op[p].token, now))
          IN  /\ Leave(p, o)
              /\ created' = IF o.err = NoErr THEN Put(created, op[p].id, o.val)
                             ELSE created
              /\ written' = IF o.err = NoErr
                             THEN Record(written, op[p].id, 0, now.inst)
                             ELSE written
              /\ UNCHANGED <<lastSet, madeBoard, lastRefs, setSince, firstDial>>

CallGetDial(p, id) ==
    /\ CanCall(p)
    /\ UNCHANGED <<nextDial, nextBoard>>
    /\ Enter(p, [name |-> "GetDial", id |-> id], FALSE)

GetDial(p) ==
    /\ pc[p] = "txn"
    /\ op[p].name = "GetDial"
    /\ LET o == GetDialTxn(tx[p], op[p].id)
       IN  LeaveRO(p, o.err, o.val)
    /\ UNCHANGED <<cur, logs>>

CallSetDial(p, id, token, value) ==
    /\ CanCall(p)
    /\ UNCHANGED <<nextDial, nextBoard>>
    /\ Enter(p, [name |-> "SetDial", id |-> id, token |-> token,
                 value |-> value], TRUE)

SetDial(p) ==
    /\ pc[p] = "txn"
    /\ op[p].name = "SetDial"
    /\ \E now \in Now :
          LET o == Finish(p, SetDialTxn(tx[p], op[p].id, op[p].token,
                                        op[p].value, now))
          IN  /\ Leave(p, o)
              /\ IF o.err = NoErr
                 THEN /\ lastSet' = Put(lastSet, op[p].id,
                                        [Value |-> op[p].value, At |-> clock])
                      /\ setSince' = [b \in DOMAIN setSince |->
                                        setSince[b] \cup {op[p].id}]
                      /\ written' = Record(written, op[p].id, op[p].value,
                                           now.inst)
                 ELSE UNCHANGED <<lastSet, setSince, written>>
              /\ UNCHANGED <<created, madeBoard, lastRefs, firstDial>>

CallCreateBoard(p, name, token) ==
    /\ CanCall(p)
    /\ nextBoard < MaxBoards
    /\ nextBoard' = nextBoard + 1
    /\ UNCHANGED nextDial
    /\ Enter(p, [name |-> "CreateBoard", id |-> NewID(nextBoard + 1),
                 bname |-> name, token |-> token], TRUE)

CreateBoard(p) ==
    /\ pc[p] = "txn"
    /\ op[p].name = "CreateBoard"
    /\ \E now \in Now :
          LET o == Finish(p, CreateBoardTxn(tx[p], op[p].id, op[p].bname,
                                            op[p].token, now))
          IN  /\ Leave(p, o)
              /\ madeBoard' = IF o.err = NoErr
                               THEN Put(madeBoard, op[p].id, o.val)
                               ELSE madeBoard
              /\ UNCHANGED <<created, lastSet, lastRefs, setSince, firstDial,
                             written>>

CallSetBoard(p, id, token, dials) ==
    /\ CanCall(p)
    /\ UNCHANGED <<nextDial, nextBoard>>
    /\ Enter(p, [name |-> "SetBoard", id |-> id, token |-> token,
                 dials |-> dials], TRUE)

SetBoard(p) ==
    /\ pc[p] = "txn"
    /\ op[p].name = "SetBoard"
    /\ \E now \in Now :
          LET o == Finish(p, SetBoardTxn(tx[p], op[p].id, op[p].token,
                                         op[p].dials, now))
          IN  /\ Leave(p, o)
              /\ IF o.err = NoErr
                 THEN /\ lastRefs' = Put(lastRefs, op[p].id,
                            [refs |-> op[p].dials,
                             over |-> /\ op[p].id \in DOMAIN lastRefs
                                      /\ lastRefs[op[p].id].refs # <<>>])
                      /\ setSince' = Put(setSince, op[p].id, {})
                 ELSE UNCHANGED <<lastRefs, setSince>>
              /\ UNCHANGED <<created, lastSet, madeBoard, firstDial, written>>

CallGetBoard(p, id) ==
    /\ CanCall(p)
    /\ UNCHANGED <<nextDial, nextBoard>>
    /\ Enter(p, [name |-> "GetBoard", id |-> id], FALSE)

\* GetBoard returning the board as decoded, without the resolved dials.
BoardResultAsStored(c) == [c.b EXCEPT !.UpdatedAt = UTC(@)]

\* GetBoard returning the board's time as decoded, in the local zone.
BoardResultLocal(c) == [c.b EXCEPT !.Dials = c.dials]

\* GetBoard's result once every reference has been tried.
BoardResult(c) == [c.b EXCEPT !.Dials = c.dials, !.UpdatedAt = UTC(@)]

\* GetBoard goes on with position c, or returns when the list is exhausted.
\* Its board transaction stays open until it returns.
GetBoardNext(p, c) ==
    IF c.i > Len(c.b.Dials)
    THEN /\ LeaveRO(p, NoErr, BoardResult(c))
         /\ cur' = [cur EXCEPT ![p] = NoCur]
    ELSE /\ cur' = [cur EXCEPT ![p] = c]
         /\ pc' = [pc EXCEPT ![p] = "loop"]
         /\ begun' = [begun EXCEPT ![p] = InnerTx(p)]
         /\ UNCHANGED <<db, writer, clock, nextDial, nextBoard, op, tx, res,
                        waited, env, outer, past>>

\* GetBoard reads the board in its own read-only transaction.
GetBoard(p) ==
    /\ pc[p] = "txn"
    /\ op[p].name = "GetBoard"
    /\ UNCHANGED logs
    /\ LET o == GetBoardTxn(tx[p], op[p].id)
       IN  IF o.err # NoErr
           THEN LeaveRO(p, o.err, o.val) /\ UNCHANGED cur
           ELSE GetBoardNext(p, [open |-> TRUE, b |-> o.val, i |-> 1,
                                 dials |-> <<>>])

\* s.GetDial reading what the writer in flight is about to commit.
GetDialNowDirty(id) ==
    IF fault = FailBegin THEN Outcome(ErrBegin, NilVal, NoTx)
    ELSE IF writer # NoProc /\ op[writer].name = "SetDial"
    THEN GetDialTxn(SetDialTxn(tx[writer], op[writer].id, op[writer].token,
                               op[writer].value, Time(clock, "UTC")).view, id)
    ELSE GetDialTxn(BeginTx(db), id)

\* s.GetDial as GetBoard calls it: begin a read-only transaction now, look
\* the dial up in it, roll back.
GetDialNow(id) ==
    IF fault = FailBegin THEN Outcome(ErrBegin, NilVal, NoTx)
    ELSE GetDialTxn(BeginTx(db), id)

\* GetBoard giving up with the error of the first lookup that fails.
GetBoardDialAbort(p) ==
    /\ pc[p] = "loop"
    /\ UNCHANGED logs
    /\ LET c == cur[p]
           d == c.b.Dials[c.i]
           o == GetDialNow(d.ID)
       IN  IF o.err # NoErr
           THEN LeaveRO(p, o.err, NilVal) /\ cur' = [cur EXCEPT ![p] = NoCur]
           ELSE GetBoardNext(p, [c EXCEPT !.i = @ + 1,
                                          !.dials = Append(@, o.val)])

\* GetBoard serving each entry as the board stores it.
GetBoardDialStored(p) ==
    /\ pc[p] = "loop"
    /\ UNCHANGED logs
    /\ LET c == cur[p]
           d == c.b.Dials[c.i]
       IN  GetBoardNext(p, [c EXCEPT !.i = @ + 1,
                                     !.dials = Append(@, [d EXCEPT !.UpdatedAt = UTC(@)])])

\* GetBoard looking each dial up in the transaction it read the board in.
GetBoardDialSnapshot(p) ==
    /\ pc[p] = "loop"
    /\ LET c == cur[p]
           d == c.b.Dials[c.i]
           o == GetDialTxn(tx[p], d.ID)
       IN  IF o.err # NoErr
           THEN /\ logs' = [logs EXCEPT ![p] = Append(@,
                               [msg |-> "GetDial error", id |-> d.ID,
                                board |-> op[p].id, err |-> o.err])]
                /\ GetBoardNext(p, [c EXCEPT !.i = @ + 1])
           ELSE /\ UNCHANGED logs
                /\ GetBoardNext(p, [c EXCEPT !.i = @ + 1,
                                            !.dials = Append(@, o.val)])

\* GetBoard resolving a reference once: a reference it has resolved before
\* is passed over.
GetBoardDialOnce(p) ==
    /\ pc[p] = "loop"
    /\ LET c == cur[p]
           d == c.b.Dials[c.i]
           o == GetDialNow(d.ID)
       IN  IF \E k \in 1..Len(c.dials) : c.dials[k].ID = d.ID
           THEN /\ UNCHANGED logs
                /\ GetBoardNext(p, [c EXCEPT !.i = @ + 1])
           ELSE IF o.err # NoErr
           THEN /\ logs' = [logs EXCEPT ![p] = Append(@,
                               [msg |-> "GetDial error", id |-> d.ID,
                                board |-> op[p].id, err |-> o.err])]
                /\ GetBoardNext(p, [c EXCEPT !.i = @ + 1])
           ELSE /\ UNCHANGED logs
                /\ GetBoardNext(p, [c EXCEPT !.i = @ + 1,
                                            !.dials = Append(@, o.val)])

\* One turn of GetBoard's loop: s.GetDial on the next reference, in a new
\* read-only transaction; a failure is logged and the reference skipped.
GetBoardDial(p) ==
    /\ pc[p] = "loop"
    /\ CanBeginRO
    /\ LET c == cur[p]
           d == c.b.Dials[c.i]
           o == GetDialNow(d.ID)
       IN  IF o.err # NoErr
           THEN /\ logs' = [logs EXCEPT ![p] = Append(@,
                               [msg |-> "GetDial error", id |-> d.ID,
                                board |-> op[p].id, err |-> o.err])]
                /\ GetBoardNext(p, [c EXCEPT !.i = @ + 1])
           ELSE /\ UNCHANGED logs
                /\ GetBoardNext(p, [c EXCEPT !.i = @ + 1,
                                            !.dials = Append(@, o.val)])

\* The commit of p's read-write transaction has to allocate pages beyond the
\* end of the memory map (the file has grown past the mapped size): it asks
\* for the map's write lock.
NeedRemap(p) ==
    /\ pc[p] = "txn"
    /\ writer = p
    /\ remap = NoProc
    /\ remap' = p
    /\ UNCHANGED <<db, writer, clock, nextDial, nextBoard, pc, op, tx, cur, res,
                   logs, waited, cancelled, fault, outer, hist>>

\* The injected clock moves on.
Tick ==
    /\ clock < MaxTime
    /\ clock' = clock + 1
    /\ UNCHANGED <<db, writer, nextDial, nextBoard, pc, op, tx, cur, res, logs,
                   waited, env, outer, hist>>

\* Every step one caller can take.
Step(p) ==
    \/ \E n \in DialNames, t \in OwnerTokens : CallCreateDial(p, n, t)
    \/ CreateDial(p)
    \/ \E id \in DialIDs : CallGetDial(p, id)
    \/ GetDial(p)
    \/ \E id \in DialIDs, t \in Tokens, v \in Values : CallSetDial(p, id, t, v)
    \/ SetDial(p)
    \/ \E n \in BoardNames, t \in OwnerTokens : CallCreateBoard(p, n, t)
    \/ CreateBoard(p)
    \/ \E id \in BoardIDs : CallGetBoard(p, id)
    \/ GetBoard(p)
    \/ GetBoardDial(p)
    \/ \E id \in BoardIDs, t \in Tokens, ds \in SeqsUpTo(DialIDs, MaxRefs) :
          CallSetBoard(p, id, t, ds)
    \/ SetBoard(p)

\* One caller at a time: every call runs to its end before the next starts.
Next ==
    \/ \E p \in SeqProcs : Step(p)
    \/ Tick

Spec == Init /\ [][Next]_vars

\* ------------------------------------------------- concurrent callers
\* The concurrent specification starts from a store a single caller has
\* filled: CreateDial, CreateBoard and SetBoard(board, token, [k1, k2]) have
\* run at the first instant, so the board names one dial that exists and one
\* that the next CreateDial will create.

SetupToken == "MYTOKEN"
SetupTime == Time(1, "UTC")
SetupRefs == <<NewID(1), NewID(2)>>
SetupDial ==
    CreateDialTxn(BeginTx([dials |-> EmptyBucket, boards |-> EmptyBucket]),
                  NewID(1), "TEST-DIAL", SetupToken, SetupTime)
SetupBoard ==
    CreateBoardTxn(SetupDial.view, NewID(1), "TEST-BOARD", SetupToken, SetupTime)
SetupRefsSet ==
    SetBoardTxn(SetupBoard.view, NewID(1), SetupToken, SetupRefs, SetupTime)

SetupState ==
    /\ db = Committed(SetupRefsSet.view)
    /\ writer = NoProc
    /\ clock = 1
    /\ nextDial = 1
    /\ nextBoard = 1
    /\ pc = [p \in Procs |-> "idle"]
    /\ op = [p \in Procs |-> NoOp]
    /\ tx = [p \in Procs |-> NoTx]
    /\ cur = [p \in Procs |-> NoCur]
    /\ res = [p \in Procs |-> NoRes]
    /\ logs = [p \in Procs |-> <<>>]
    /\ waited = [p \in Procs |-> FALSE]
    /\ cancelled = [p \in Procs |-> FALSE]
    /\ fault = NoFault
    /\ remap = NoProc
    /\ req = [p \in Procs |-> NoReq]
    /\ resp = [p \in Procs |-> NoResp]
    /\ users = EmptyBucket
    /\ created = Put(EmptyBucket, NewID(1), SetupDial.val)
    /\ lastSet = EmptyBucket
    /\ madeBoard = Put(EmptyBucket, NewID(1), SetupBoard.val)
    /\ lastRefs = Put(EmptyBucket, NewID(1), [refs |-> SetupRefs, over |-> FALSE])
    /\ setSince = Put(EmptyBucket, NewID(1), {})
    /\ firstDial = EmptyBucket
    /\ begun = [p \in Procs |-> NoTxs]

InitConc == SetupState /\ written = EmptyBucket

\* The same store, with every committed write of every dial on record.
InitSnap ==
    /\ SetupState
    /\ written = [d \in DialIDs |->
                    IF d = NewID(1) THEN {[Value |-> 0, At |-> SetupTime.inst]}
                    ELSE {}]

\* The value each concurrent caller sets: the callers' writes differ.
ValueOf(p) == IF p = 1 THEN 33 ELSE 67

\* The first caller creates and sets dials.
StepWriter(p) ==
    \/ \E n \in DialNames, t \in OwnerTokens : CallCreateDial(p, n, t)
    \/ CreateDial(p)
    \/ \E id \in DialIDs, t \in OwnerTokens : CallSetDial(p, id, t, ValueOf(p))
    \/ SetDial(p)
    \/ AcquireRW(p)

\* The second caller sets dials and reads dials and the board.
StepMixed(p) ==
    \/ \E id \in DialIDs, t \in OwnerTokens : CallSetDial(p, id, t, ValueOf(p))
    \/ SetDial(p)
    \/ AcquireRW(p)
    \/ \E id \in DialIDs : CallGetDial(p, id)
    \/ GetDial(p)
    \/ \E id \in BoardIDs : CallGetBoard(p, id)
    \/ GetBoard(p)
    \/ GetBoardDial(p)

\* Two callers, their calls interleaved wherever bolt lets them.
NextConc ==
    \/ StepWriter(1)
    \/ StepMixed(2)
    \/ Tick

SpecConc == InitConc /\ [][NextConc]_vars

\* The concurrent callers, the dials' committed writes recorded.
SpecSnap == InitSnap /\ [][NextConc]_vars

\* ------------------------------------------------ callers under fairness
\* One caller writes while the other reads the board; a commit may have to
\* remap the data file.  Each caller that can take a step eventually does.

StepLiveWriter(p) ==
    \/ \E n \in DialNames, t \in OwnerTokens : CallCreateDial(p, n, t)
    \/ CreateDial(p)
    \/ \E id \in DialIDs, t \in OwnerTokens : CallSetDial(p, id, t, ValueOf(p))
    \/ SetDial(p)
    \/ \E id \in BoardIDs, t \in OwnerTokens, ds \in SeqsUpTo(DialIDs, 1) :
          CallSetBoard(p, id, t, ds)
    \/ SetBoard(p)
    \/ NeedRemap(p)

StepLiveReader(p) ==
    \/ \E id \in BoardIDs : CallGetBoard(p, id)
    \/ GetBoard(p)
    \/ GetBoardDial(p)

NextLive ==
    \/ StepLiveWriter(1)
    \/ StepLiveReader(2)
    \/ Tick

SpecLive ==
    /\ InitConc
    /\ [][NextLive]_vars
    /\ WF_vars(StepLiveWriter(1))
    /\ WF_vars(StepLiveReader(2))

\* ------------------------------------- construction, failures, contexts
\* The store is a function from the names of its key spaces to buckets.  The
\* specifications above start after a successful construction, with both key
\* spaces; the one below starts before it, and lets storage calls fail and
\* contexts be cancelled.

\* A store without key spaces, and one written before boards existed.
NoSpaces == <<>>
OnlyDials == Put(NoSpaces, "dials", EmptyBucket)

\* The *service NewService returns.
Service == [nil |-> FALSE]

\* txn.CreateBucketIfNotExists(name).
CreateBucketIfNotExists(store, name) ==
    IF name \in DOMAIN store THEN store ELSE Put(store, name, EmptyBucket)

\* NewService keeping the dials key space when the boards one fails.
NewServiceTxnNoRollback(store, f) ==
    IF f = FailBucketDials THEN Outcome(ErrBucket, NilVal, store)
    ELSE LET t1 == CreateBucketIfNotExists(store, "dials")
         IN  IF f = FailBucketBoards THEN Outcome(ErrBucket, NilVal, t1)
             ELSE LET t2 == CreateBucketIfNotExists(t1, "boards")
                  IN  IF f = FailCommit THEN Outcome(ErrCommit, Service, store)
                      ELSE Outcome(NoErr, Service, t2)

\* NewService's transaction on the store, with f the storage call that
\* fails: the error and the service it returns and the store it leaves.
\* A failed CreateBucketIfNotExists returns and the deferred Rollback undoes
\* the transaction; return &service{...}, txn.Commit() returns the service
\* together with Commit's error.
NewServiceTxn(store, f) ==
    IF f = FailBucketDials THEN Outcome(ErrBucket, NilVal, store)
    ELSE LET t1 == CreateBucketIfNotExists(store, "dials")
         IN  IF f = FailBucketBoards THEN Outcome(ErrBucket, NilVal, store)
             ELSE LET t2 == CreateBucketIfNotExists(t1, "boards")
                  IN  IF f = FailCommit THEN Outcome(ErrCommit, Service, store)
                      ELSE Outcome(NoErr, Service, t2)

\* NewService is called; its db.Begin(true) returns when no writer is in
\* flight, with the transaction or with an error.
CallNewService(p) ==
    /\ CanCall(p)
    /\ CanBeginRW(writer)
    /\ op' = [op EXCEPT ![p] = [name |-> "NewService"]]
    /\ logs' = [logs EXCEPT ![p] = <<>>]
    /\ cur' = [cur EXCEPT ![p] = NoCur]
    /\ IF fault = FailBegin
       THEN /\ pc' = [pc EXCEPT ![p] = "done"]
            /\ tx' = [tx EXCEPT ![p] = NoTx]
            /\ res' = [res EXCEPT ![p] = [err |-> ErrBegin, val |-> NilVal]]
            /\ UNCHANGED writer
       ELSE /\ pc' = [pc EXCEPT ![p] = "txn"]
            /\ tx' = [tx EXCEPT ![p] = [open |-> TRUE]]
            /\ res' = [res EXCEPT ![p] = NoRes]
            /\ writer' = p
    /\ UNCHANGED <<db, clock, nextDial, nextBoard, waited, env, outer, hist>>

NewService(p) ==
    /\ pc[p] = "txn"
    /\ op[p].name = "NewService"
    /\ LET o == NewServiceTxn(db, fault)
       IN  /\ db' = o.view
           /\ res' = [res EXCEPT ![p] = [err |-> o.err, val |-> o.val]]
    /\ writer' = NoProc
    /\ tx' = [tx EXCEPT ![p] = NoTx]
    /\ pc' = [pc EXCEPT ![p] = "done"]
    /\ UNCHANGED <<clock, nextDial, nextBoard, op, cur, logs, waited, env, outer, hist>>

\* A storage call starts to fail, or storage recovers.
SetFault(f) ==
    /\ fault' = f
    /\ fault' # fault
    /\ UNCHANGED <<db, writer, clock, nextDial, nextBoard, pc, op, tx, cur, res,
                   logs, waited, cancelled, remap, outer, hist>>

\* The context a caller passes is cancelled; the caller makes a new one.
CancelCtx(p) ==
    /\ ~cancelled[p]
    /\ cancelled' = [cancelled EXCEPT ![p] = TRUE]
    /\ UNCHANGED <<db, writer, clock, nextDial, nextBoard, pc, op, tx, cur, res,
                   logs, waited, fault, remap, outer, hist>>

FreshCtx(p) ==
    /\ CanCall(p)
    /\ cancelled[p]
    /\ cancelled' = [cancelled EXCEPT ![p] = FALSE]
    /\ UNCHANGED <<db, writer, clock, nextDial, nextBoard, pc, op, tx, cur, res,
                   logs, waited, fault, remap, outer, hist>>

\* The store has the key spaces the operations use.
Ready == DOMAIN db = {"dials", "boards"}

\* Before construction: a store without both key spaces, nothing created.
InitBare ==
    /\ db \in {NoSpaces, OnlyDials}
    /\ writer = NoProc
    /\ clock = 1
    /\ nextDial = 0
    /\ nextBoard = 0
    /\ pc = [p \in Procs |-> "idle"]
    /\ op = [p \in Procs |-> NoOp]
    /\ tx = [p \in Procs |-> NoTx]
    /\ cur = [p \in Procs |-> NoCur]
    /\ res = [p \in Procs |-> NoRes]
    /\ logs = [p \in Procs |-> <<>>]
    /\ waited = [p \in Procs |-> FALSE]
    /\ cancelled = [p \in Procs |-> FALSE]
    /\ fault = NoFault
    /\ remap = NoProc
    /\ req = [p \in Procs |-> NoReq]
    /\ resp = [p \in Procs |-> NoResp]
    /\ users = EmptyBucket
    /\ created = EmptyBucket
    /\ lastSet = EmptyBucket
    /\ madeBoard = EmptyBucket
    /\ lastRefs = EmptyBucket
    /\ setSince = EmptyBucket
    /\ firstDial = EmptyBucket
    /\ begun = [p \in Procs |-> NoTxs]
    /\ written = EmptyBucket

\* A store to construct the service on: a bare one, or one an earlier run
\* of the service has filled.
InitFault == InitBare \/ InitConc

\* One caller: it constructs the service, and on a store with both key
\* spaces it creates, sets and reads.
StepFault(p) ==
    \/ CallNewService(p)
    \/ NewService(p)
    \/ Ready /\ \E n \in DialNames, t \in OwnerTokens : CallCreateDial(p, n, t)
    \/ CreateDial(p)
    \/ Ready /\ \E id \in DialIDs, t \in Tokens : CallSetDial(p, id, t, ValueOf(p))
    \/ SetDial(p)
    \/ Ready /\ \E id \in DialIDs : CallGetDial(p, id)
    \/ GetDial(p)
    \/ Ready /\ \E n \in BoardNames, t \in OwnerTokens : CallCreateBoard(p, n, t)
    \/ CreateBoard(p)
    \/ Ready /\ \E id \in BoardIDs, t \in Tokens, ds \in SeqsUpTo(DialIDs, 1) :
          CallSetBoard(p, id, t, ds)
    \/ SetBoard(p)
    \/ Ready /\ \E id \in BoardIDs : CallGetBoard(p, id)
    \/ GetBoard(p)
    \/ GetBoardDial(p)
    \/ CancelCtx(p)
    \/ FreshCtx(p)

NextFault ==
    \/ \E p \in SeqProcs : StepFault(p)
    \/ \E f \in Faults \cup {NoFault} : SetFault(f)

SpecFault == InitFault /\ [][NextFault]_vars

\* ------------------------------------------------------------ HTTP API
\* pkg/api: each handler decodes and validates its request, calls the
\* service and answers.  A handler runs on the process that serves the
\* request; req[p].stage is the service call the handler makes next or
\* waits for, "responded" once it has answered.

\* api.Respond(w, r, status, data), api.Problem(w, r, title, detail, status)
\* and api.NotFound(w, r).
Respond(status, data) == [status |-> status, body |-> data]
Problem(title, detail, status) ==
    [status |-> status, body |-> [title |-> title, detail |-> detail]]
NotFound == Problem("Not Found", "", 404)

\* json.Marshal of a Dial with the token in it.
EncodeDialWithToken(d) ==
    [id |-> d.ID, token |-> d.Token, name |-> d.Name, value |-> d.Value,
     updated_at |-> d.UpdatedAt]

\* json.Marshal of a Dial and of a Board: the fields by their json tags; the
\* token is tagged "-" and left out.
EncodeDial(d) ==
    [id |-> d.ID, name |-> d.Name, value |-> d.Value,
     updated_at |-> d.UpdatedAt]
EncodeBoard(b) ==
    [id |-> b.ID, name |-> b.Name,
     dials |-> [i \in 1..Len(b.Dials) |-> EncodeDial(b.Dials[i])],
     updated_at |-> b.UpdatedAt]

\* Request bodies: JSON that does not parse, or the fields of the request,
\* where a string may be empty and a value or a list may be missing.
BadJSON == [json |-> FALSE]
Absent == [nil |-> TRUE]
Given(v) == [nil |-> FALSE, v |-> v]
CreateBodies ==
    {BadJSON} \cup {[json |-> TRUE, name |-> n, token |-> t] :
                       n \in DialNames \cup {""}, t \in OwnerTokens \cup {""}}
SetDialBodies ==
    {BadJSON} \cup {[json |-> TRUE, token |-> t, value |-> v] :
                       t \in Tokens \cup {""},
                       v \in {Absent} \cup {Given(x) : x \in {33}}}
SetBoardBodies ==
    {BadJSON} \cup {[json |-> TRUE, token |-> t, dials |-> ds] :
                       t \in Tokens \cup {""},
                       ds \in {Absent} \cup
                              {Given(l) : l \in SeqsUpTo(DialIDs, 1)}}

\* api.Decode failed, or a required field is empty or missing.
Invalid(body, missing, detail) ==
    IF ~body.json THEN Problem("Validation Error", "Invalid JSON", 400)
    ELSE IF missing THEN Problem("Validation Error", detail, 400)
    ELSE NoResp

\* The answers of the handlers to what the service returned: err e, value v.
createDialAnswer(e, v) ==
    IF e # NoErr
    THEN Problem("Internal Server Error", "Could not create dial", 500)
    ELSE Respond(201, EncodeDial(v))

getDialAnswer(e, v) ==
    IF e = ErrDialNotFound THEN NotFound
    ELSE IF e # NoErr
    THEN Problem("Internal Server Error", "Could not retrieve dial", 500)
    ELSE Respond(200, EncodeDial(v))

\* setDialValue going on to GetDial whatever SetDial returned.
setDialValueAfterSetGoesOn(e) == NoResp

\* setDialValue after SetDial: an answer, or NoResp to go on to GetDial.
setDialValueAfterSet(e) ==
    IF e = ErrDialNotFound THEN NotFound
    ELSE IF e = ErrUnauthorized
    THEN Problem("Unauthorized", "Invalid token", 401)
    ELSE IF e # NoErr
    THEN Problem("Internal Server Error", "Could not update dial", 500)
    ELSE NoResp

setDialValueAfterGet(e, v) ==
    IF e # NoErr
    THEN Problem("Internal Server Error", "Could not update dial", 500)
    ELSE Respond(200, EncodeDial(v))

createBoardAnswer(e, v) ==
    IF e # NoErr
    THEN Problem("Internal Server Error", "Could not create board", 500)
    ELSE Respond(201, EncodeBoard(v))

getBoardAnswer(e, v) ==
    IF e = ErrBoardNotFound THEN NotFound
    ELSE IF e # NoErr
    THEN Problem("Internal Server Error", "Could not retrieve board", 500)
    ELSE Respond(200, EncodeBoard(v))

setBoardDialsAfterSet(e) ==
    IF e = ErrBoardNotFound THEN NotFound
    ELSE IF e = ErrUnauthorized
    THEN Problem("Unauthorized", "Invalid token", 401)
    ELSE IF e # NoErr
    THEN Problem("Internal Server Error", "Could not update board", 500)
    ELSE NoResp

setBoardDialsAfterGet(e, v) ==
    IF e # NoErr
    THEN Problem("Internal Server Error", "Could not update board", 500)
    ELSE Respond(200, EncodeBoard(v))

\* Process p serves no request at present.
CanServe(p) == CanCall(p) /\ req[p].stage \in {"none", "responded"}

\* A request reaches its handler: it is answered at once if it is invalid
\* (bad is the answer), otherwise the handler is about to call the service.
Receive(p, r, bad) ==
    /\ CanServe(p)
    /\ req' = [req EXCEPT ![p] =
                 IF bad = NoResp THEN r ELSE [r EXCEPT !.stage = "responded"]]
    /\ resp' = [resp EXCEPT ![p] = bad]
    /\ pc' = [pc EXCEPT ![p] = "idle"]
    /\ op' = [op EXCEPT ![p] = NoOp]
    /\ res' = [res EXCEPT ![p] = NoRes]
    /\ logs' = [logs EXCEPT ![p] = <<>>]
    /\ UNCHANGED <<db, writer, clock, nextDial, nextBoard, tx, cur, waited, env,
                   users, hist>>

ReceiveCreateDial(p, body) ==
    Receive(p, [handler |-> "createDial", stage |-> "CreateDial", body |-> body],
            Invalid(body, body.name = "" \/ body.token = "",
                    "Both name and token must be provided."))

ReceiveGetDial(p, id) ==
    Receive(p, [handler |-> "getDial", stage |-> "GetDial", id |-> id], NoResp)

ReceiveSetDialValue(p, id, body) ==
    Receive(p, [handler |-> "setDialValue", stage |-> "SetDial", id |-> id,
                body |-> body],
            Invalid(body, body.token = "" \/ body.value = Absent,
                    "Both token and value must be provided."))

ReceiveCreateBoard(p, body) ==
    Receive(p, [handler |-> "createBoard", stage |-> "CreateBoard",
                body |-> body],
            Invalid(body, body.name = "" \/ body.token = "",
                    "Both name and token must be provided."))

ReceiveGetBoard(p, id) ==
    Receive(p, [handler |-> "getBoard", stage |-> "GetBoard", id |-> id], NoResp)

ReceiveSetBoardDials(p, id, body) ==
    Receive(p, [handler |-> "setBoardDials", stage |-> "SetBoard", id |-> id,
                body |-> body],
            Invalid(body, body.token = "" \/ body.dials = Absent,
                    "Both token and dials must be provided."))

\* The handler calls the service.
HandlerCalls(p) ==
    /\ pc[p] = "idle"
    /\ LET r == req[p]
       IN  CASE r.stage = "CreateDial" ->
                    CallCreateDial(p, r.body.name, r.body.token)
             [] r.stage = "GetDial" -> CallGetDial(p, r.id)
             [] r.stage = "SetDial" ->
                    CallSetDial(p, r.id, r.body.token, r.body.value.v)
             [] r.stage = "CreateBoard" ->
                    CallCreateBoard(p, r.body.name, r.body.token)
             [] r.stage = "GetBoard" -> CallGetBoard(p, r.id)
             [] r.stage = "SetBoard" ->
                    CallSetBoard(p, r.id, r.body.token, r.body.dials.v)
             [] OTHER -> FALSE

\* What the handler does with what the service returned: its answer, or
\* NoResp when it goes on to its next call.
Answer(r, e, v) ==
    CASE r.stage = "CreateDial" -> createDialAnswer(e, v)
      [] r.stage = "GetDial" /\ r.handler = "getDial" -> getDialAnswer(e, v)
      [] r.stage = "SetDial" -> setDialValueAfterSet(e)
      [] r.stage = "GetDial" /\ r.handler = "setDialValue" ->
            setDialValueAfterGet(e, v)
      [] r.stage = "CreateBoard" -> createBoardAnswer(e, v)
      [] r.stage = "GetBoard" /\ r.handler = "getBoard" -> getBoardAnswer(e, v)
      [] r.stage = "SetBoard" -> setBoardDialsAfterSet(e)
      [] r.stage = "GetBoard" /\ r.handler = "setBoardDials" ->
            setBoardDialsAfterGet(e, v)

\* The stage after a successful set: the handler reads back what it set.
NextStage(r) == IF r.stage = "SetDial" THEN "GetDial" ELSE "GetBoard"

\* The service has returned to the handler: it answers or goes on.
HandlerGoesOn(p) ==
    /\ pc[p] = "done"
    /\ req[p].stage \notin {"none", "responded"}
    /\ LET a == Answer(req[p], res[p].err, res[p].val)
       IN  IF a = NoResp
           THEN /\ req' = [req EXCEPT ![p].stage = NextStage(req[p])]
                /\ pc' = [pc EXCEPT ![p] = "idle"]
                /\ UNCHANGED resp
           ELSE /\ req' = [req EXCEPT ![p].stage = "responded"]
                /\ resp' = [resp EXCEPT ![p] = a]
                /\ UNCHANGED pc
    /\ UNCHANGED <<db, writer, clock, nextDial, nextBoard, op, tx, cur, res,
                   logs, waited, env, users, hist>>

\* One server process: requests, the handlers' steps, the service's steps.
StepApi(p) ==
    \/ \E body \in CreateBodies : ReceiveCreateDial(p, body)
    \/ \E id \in DialIDs : ReceiveGetDial(p, id)
    \/ \E id \in DialIDs, body \in SetDialBodies : ReceiveSetDialValue(p, id, body)
    \/ \E body \in CreateBodies : ReceiveCreateBoard(p, body)
    \/ \E id \in BoardIDs : ReceiveGetBoard(p, id)
    \/ \E id \in BoardIDs, body \in SetBoardBodies :
          ReceiveSetBoardDials(p, id, body)
    \/ HandlerCalls(p)
    \/ HandlerGoesOn(p)
    \/ CreateDial(p)
    \/ GetDial(p)
    \/ SetDial(p)
    \/ CreateBoard(p)
    \/ GetBoard(p)
    \/ GetBoardDial(p)
    \/ SetBoard(p)

NextApi ==
    \/ \E p \in SeqProcs : StepApi(p)
    \/ \E f \in {NoFault, FailBegin, FailCommit} : SetFault(f)

SpecApi == Init /\ [][NextApi]_vars

\* ------------------------------------------------------- the Slack service

\* The salt the Slack service is configured with.
Salt == "salt"
\* Team and user identifiers SetDialValue is called with: any strings.
TeamIDs == {"team", "team:user"}
UserIDs == {"user", "user:user"}

\* fmt.Sprintf("%s:%s", teamID, userID)
getUserKey(teamID, userID) == teamID \o ":" \o userID

\* The lower-cased base64 encoding of key ":" salt; the encoding is written
\* b64(...), and lowering it merges none of the tokens of the keys used here.
generateToken(key, salt) == "b64(" \o key \o ":" \o salt \o ")"

\* The nil *DialID SetDialValue starts with.
NoDialID == ""
ErrFinding == "finding existing dial"
ErrCreating == "creating dial"
ErrMapping == "storing dial mapping"
ErrSetting == "setting dial value"
Result(e) == [err |-> e]

\* SetDialValue is called: it derives the key and the token and looks the
\* user's dial up in slack_users (db.View), then goes on to create a dial if
\* it found none and to set the value otherwise.
SlackSetDialValue(p, teamID, userID, value) ==
    LET key == getUserKey(teamID, userID)
        found == Has(users, key)
    IN  Receive(p, [handler |-> "slack.SetDialValue",
                    stage |-> IF found THEN "SetDial" ELSE "CreateDial",
                    teamID |-> teamID, userID |-> userID, value |-> value,
                    key |-> key, token |-> generateToken(key, Salt),
                    dialID |-> IF found THEN users[key] ELSE NoDialID],
                IF fault = FailBegin THEN Result(ErrFinding) ELSE NoResp)

\* SetDialValue calls the core service.
SlackCalls(p) ==
    /\ pc[p] = "idle"
    /\ LET r == req[p]
       IN  /\ r.handler = "slack.SetDialValue"
           /\ CASE r.stage = "CreateDial" -> CallCreateDial(p, r.key, r.token)
                [] r.stage = "SetDial" ->
                      CallSetDial(p, r.dialID, r.token, r.value)
                [] OTHER -> FALSE

\* CreateDial has returned: SetDialValue gives up on an error, otherwise it
\* is about to store the mapping from the user's key to the new dial.
SlackAfterCreate(p) ==
    /\ pc[p] = "done"
    /\ req[p].handler = "slack.SetDialValue"
    /\ req[p].stage = "CreateDial"
    /\ IF res[p].err # NoErr
       THEN /\ req' = [req EXCEPT ![p].stage = "responded"]
            /\ resp' = [resp EXCEPT ![p] = Result(ErrCreating)]
       ELSE /\ req' = [req EXCEPT ![p].stage = "StoreMapping"]
            /\ UNCHANGED resp
    /\ UNCHANGED <<db, writer, clock, nextDial, nextBoard, pc, op, tx, cur, res,
                   logs, waited, env, users, hist>>

\* db.Update storing key -> dial.ID in slack_users, one read-write
\* transaction of the store; then the new dial's id is the one to set.
SlackStoreMapping(p) ==
    /\ pc[p] = "done"
    /\ req[p].handler = "slack.SetDialValue"
    /\ req[p].stage = "StoreMapping"
    /\ CanBeginRW(writer)
    /\ IF fault \in {FailBegin, FailPut, FailCommit}
       THEN /\ req' = [req EXCEPT ![p].stage = "responded"]
            /\ resp' = [resp EXCEPT ![p] = Result(ErrMapping)]
            /\ UNCHANGED <<users, pc>>
       ELSE /\ users' = Put(users, req[p].key, res[p].val.ID)
            /\ req' = [req EXCEPT ![p].stage = "SetDial",
                                  ![p].dialID = res[p].val.ID]
            /\ pc' = [pc EXCEPT ![p] = "idle"]
            /\ UNCHANGED resp
    /\ UNCHANGED <<db, writer, clock, nextDial, nextBoard, op, tx, cur, res,
                   logs, waited, env, hist>>

\* SetDial has returned, and SetDialValue returns: an error, or nil.
SlackAfterSet(p) ==
    /\ pc[p] = "done"
    /\ req[p].handler = "slack.SetDialValue"
    /\ req[p].stage = "SetDial"
    /\ req' = [req EXCEPT ![p].stage = "responded"]
    /\ LET pair == <<req[p].teamID, req[p].userID>>
       IN  IF res[p].err # NoErr
           THEN /\ resp' = [resp EXCEPT ![p] = Result(ErrSetting)]
                /\ UNCHANGED firstDial
           ELSE /\ resp' = [resp EXCEPT ![p] = Result(NoErr)]
                /\ firstDial' = IF Has(firstDial, pair) THEN firstDial
                                ELSE Put(firstDial, pair, req[p].dialID)
    /\ UNCHANGED <<db, writer, clock, nextDial, nextBoard, pc, op, tx, cur, res,
                   logs, waited, env, users, created, lastSet, madeBoard,
                   lastRefs, setSince, begun, written>>

\* One caller of the Slack service, one call at a time.
StepSlack(p) ==
    \/ \E teamID \in TeamIDs, userID \in UserIDs, value \in Values :
          SlackSetDialValue(p, teamID, userID, value)
    \/ SlackCalls(p)
    \/ CreateDial(p)
    \/ SlackAfterCreate(p)
    \/ SlackStoreMapping(p)
    \/ SetDial(p)
    \/ SlackAfterSet(p)

NextSlack ==
    \/ \E p \in SeqProcs : StepSlack(p)
    \/ Tick

\* Sequential calls of the Slack service on a store with nothing in it.
SpecSlack == Init /\ [][NextSlack]_vars

\* The users of one team calling SetDialValue, each caller with a value of
\* its own.
StepSlackConc(p) ==
    \/ \E userID \in UserIDs : SlackSetDialValue(p, "team", userID, ValueOf(p))
    \/ SlackCalls(p)
    \/ AcquireRW(p)
    \/ CreateDial(p)
    \/ SlackAfterCreate(p)
    \/ SlackStoreMapping(p)
    \/ SetDial(p)
    \/ SlackAfterSet(p)

NextSlackConc == \E p \in ConcProcs : StepSlackConc(p)

\* Concurrent calls of the Slack service on a store with nothing in it.
SpecSlackConc == Init /\ [][NextSlackConc]_vars

\* ------------------------------------------------------- the board page
\* pkg/ui: the board page shows a board (GET) and adds a dial to it (POST).
\* The handler reads the board through the service, and for a valid POST
\* calls SetBoard with the ids of the dials it read followed by the new one,
\* then reads the board again.

\* Longest list the page is asked to extend.
MaxPageRefs == 2

\* strings.TrimSpace(s) == ""
Blank(s) == s \in {"", " "}

\* What a POST's form holds.
PageBodies == [dialID : DialIDs \cup {" "}, token : Tokens]

\* boardDialInfo.Validate()
ValidateDial(body) == ~Blank(body.dialID) /\ ~Blank(body.token)

\* The form handed back with the errors found.
FormErrors(msg) == [errors |-> msg]

ErrorPage(msg) == [page |-> "error", msg |-> msg]
BoardPage(board, info) == [page |-> "board", board |-> board, info |-> info]

\* The list the handler hands to SetBoard: the ids of board.Dials, the dials
\* GetBoard returned, and the id of the form.
PageDials(board, body) ==
    [i \in 1..(Len(board.Dials) + 1) |->
        IF i <= Len(board.Dials) THEN board.Dials[i].ID ELSE body.dialID]

\* A request for the board page reaches the handler.
ReceiveBoardPage(p, method, id, body) ==
    Receive(p, [handler |-> "ui.GetBoard", stage |-> "GetBoard",
                method |-> method, id |-> id, body |-> body,
                board |-> NilVal],
            NoResp)

\* The handler calls the service.
PageCalls(p) ==
    /\ pc[p] = "idle"
    /\ LET r == req[p]
       IN  /\ r.handler = "ui.GetBoard"
           /\ CASE r.stage \in {"GetBoard", "GetBoardAgain"} ->
                      CallGetBoard(p, r.id)
                [] r.stage = "SetBoard" ->
                      CallSetBoard(p, r.id, r.body.token,
                                   PageDials(r.board, r.body))
                [] OTHER -> FALSE

\* The first GetBoard has returned: the error page, the board for a GET, the
\* board with the form's errors for an invalid POST; otherwise on to SetBoard.
PageAfterGet(p) ==
    /\ pc[p] = "done"
    /\ req[p].handler = "ui.GetBoard"
    /\ req[p].stage = "GetBoard"
    /\ LET r == req[p]
           a == IF res[p].err = ErrBoardNotFound
                THEN ErrorPage("Oops, the board wasn't found.")
                ELSE IF res[p].err # NoErr
                THEN ErrorPage("Error retrieving board, please try again.")
                ELSE IF r.method = "GET" THEN BoardPage(res[p].val, NilVal)
                ELSE IF ~ValidateDial(r.body)
                THEN BoardPage(res[p].val, FormErrors("Please enter"))
                ELSE NoResp
       IN  IF a = NoResp
           THEN /\ Len(res[p].val.Dials) <= MaxPageRefs
                /\ req' = [req EXCEPT ![p].stage = "SetBoard",
                                      ![p].board = res[p].val]
                /\ pc' = [pc EXCEPT ![p] = "idle"]
                /\ UNCHANGED resp
           ELSE /\ req' = [req EXCEPT ![p].stage = "responded"]
                /\ resp' = [resp EXCEPT ![p] = a]
                /\ UNCHANGED pc
    /\ UNCHANGED <<db, writer, clock, nextDial, nextBoard, op, tx, cur, res,
                   logs, waited, env, users, hist>>

\* SetBoard has returned: the board as read before with the error, or on to
\* reading the board again.
PageAfterSet(p) ==
    /\ pc[p] = "done"
    /\ req[p].handler = "ui.GetBoard"
    /\ req[p].stage = "SetBoard"
    /\ IF res[p].err # NoErr
       THEN /\ req' = [req EXCEPT ![p].stage = "responded"]
            /\ resp' = [resp EXCEPT ![p] =
                          BoardPage(req[p].board, FormErrors(
                                    "Error adding dial, please try again."))]
            /\ UNCHANGED pc
       ELSE /\ req' = [req EXCEPT ![p].stage = "GetBoardAgain"]
            /\ pc' = [pc EXCEPT ![p] = "idle"]
            /\ UNCHANGED resp
    /\ UNCHANGED <<db, writer, clock, nextDial, nextBoard, op, tx, cur, res,
                   logs, waited, env, users, hist>>

\* The second GetBoard has returned: the error page or the board.
PageAfterGetAgain(p) ==
    /\ pc[p] = "done"
    /\ req[p].handler = "ui.GetBoard"
    /\ req[p].stage = "GetBoardAgain"
    /\ req' = [req EXCEPT ![p].stage = "responded"]
    /\ resp' = [resp EXCEPT ![p] =
                  IF res[p].err # NoErr
                  THEN ErrorPage("Error retrieving board, please try again.")
                  ELSE BoardPage(res[p].val, NilVal)]
    /\ UNCHANGED <<db, writer, clock, nextDial, nextBoard, pc, op, tx, cur, res,
                   logs, waited, env, users, hist>>

\* One server process serving the board page.
StepPage(p) ==
    \/ \E id \in BoardIDs, body \in PageBodies :
          ReceiveBoardPage(p, "POST", id, body)
    \/ \E id \in BoardIDs : ReceiveBoardPage(p, "GET", id, NilVal)
    \/ PageCalls(p)
    \/ GetBoard(p)
    \/ GetBoardDial(p)
    \/ PageAfterGet(p)
    \/ SetBoard(p)
    \/ AcquireRW(p)
    \/ PageAfterSet(p)
    \/ PageAfterGetAgain(p)

NextPage == \E p \in ConcProcs : StepPage(p)

\* Two requests at a time for the page of a board that refers to an existing
\* dial and to a missing one.
SpecPage == InitConc /\ [][NextPage]_vars

\* ------------------------------------------------------------- properties

\* Process p's call of the named operation returns in this step.
Returns(p, name) ==
    /\ op[p].name = name
    /\ pc[p] \in {"txn", "loop"}
    /\ pc'[p] = "done"

\* Process p has returned from the named operation and not called again.
Returned(p, name) == pc[p] = "done" /\ op[p].name = name

\* The identifiers a stored board holds, in stored order.
StoredRefs(store, b) ==
    LET ds == UnmarshalBoard(store.boards[b]).Dials
    IN  [i \in 1..Len(ds) |-> ds[i].ID]

\* The dial record the successful calls so far add up to: the dial as
\* created, with the value and instant of the last successful SetDial.
Current(d) ==
    IF d \in DOMAIN lastSet
    THEN [created[d] EXCEPT !.Value = lastSet[d].Value,
                            !.UpdatedAt = Time(lastSet[d].At, "UTC")]
    ELSE created[d]

\* The subsequence of ids whose dial has been created, each as Current.
RECURSIVE Resolved(_)
Resolved(ids) ==
    IF ids = <<>> THEN <<>>
    ELSE IF Head(ids) \in DOMAIN created
         THEN <<Current(Head(ids))>> \o Resolved(Tail(ids))
         ELSE Resolved(Tail(ids))

\* C1: SetDial on an existing dial, or SetBoard on an existing board, with a
\* token other than the one it was created with returns Unauthorized and
\* leaves the store as it was: the dial's value and updated_at, the board's
\* dial_refs and updated_at, are what they were before the call.
C1_UnauthorizedStep ==
    \A p \in Procs :
        /\ ( /\ Returns(p, "SetDial")
             /\ op[p].id \in DOMAIN created
             /\ op[p].token # created[op[p].id].Token )
           => /\ res'[p].err = ErrUnauthorized
              /\ db' = db
        /\ ( /\ Returns(p, "SetBoard")
             /\ op[p].id \in DOMAIN madeBoard
             /\ op[p].token # madeBoard[op[p].id].Token )
           => /\ res'[p].err = ErrUnauthorized
              /\ db' = db
C1_UnauthorizedLeavesRecord == [][C1_UnauthorizedStep]_vars

\* A SetDial with the wrong token has returned Unauthorized on a dial whose
\* value an earlier SetDial had set, and the stored value is still that one.
C1_Witness ==
    \E p \in Procs :
        /\ Returned(p, "SetDial")
        /\ res[p].err = ErrUnauthorized
        /\ op[p].id \in DOMAIN lastSet
        /\ op[p].value # lastSet[op[p].id].Value
        /\ UnmarshalDial(db.dials[op[p].id]).Value = lastSet[op[p].id].Value

\* C2: GetDial and SetDial on an id with no stored dial return DialNotFound,
\* GetBoard and SetBoard on an id with no stored board return BoardNotFound,
\* whatever the token; Unauthorized is only ever returned for an entity that
\* exists.
C2_NotFoundStep ==
    \A p \in Procs :
        /\ ( /\ Returns(p, "GetDial") \/ Returns(p, "SetDial")
             /\ ~Has(db.dials, op[p].id) )
           => res'[p].err = ErrDialNotFound
        /\ ( /\ Returns(p, "GetBoard") \/ Returns(p, "SetBoard")
             /\ ~Has(db.boards, op[p].id) )
           => res'[p].err = ErrBoardNotFound
        /\ ( Returns(p, "SetDial") /\ res'[p].err = ErrUnauthorized )
           => Has(db.dials, op[p].id)
        /\ ( Returns(p, "SetBoard") /\ res'[p].err = ErrUnauthorized )
           => Has(db.boards, op[p].id)
C2_NotFoundBeforeUnauthorized == [][C2_NotFoundStep]_vars

\* A SetDial with a token no dial has was answered DialNotFound.
C2_Witness ==
    \E p \in Procs :
        /\ Returned(p, "SetDial")
        /\ op[p].token \notin OwnerTokens
        /\ res[p].err = ErrDialNotFound

\* C3: a GetDial that follows a successful SetDial(id, token, v), with no
\* other successful SetDial on id since, returns value v, updated_at the
\* clock's instant of that SetDial in UTC, and the id, name and token the
\* dial was created with.
C3_GetAfterSet ==
    \A p \in SeqProcs :
        ( Returned(p, "GetDial") /\ op[p].id \in DOMAIN lastSet )
        => /\ res[p].err = NoErr
           /\ res[p].val =
                [ID |-> op[p].id,
                 Token |-> created[op[p].id].Token,
                 Name |-> created[op[p].id].Name,
                 Value |-> lastSet[op[p].id].Value,
                 UpdatedAt |-> Time(lastSet[op[p].id].At, "UTC")]

\* A GetDial returned a dial set at a later instant than it was created.
C3_Witness ==
    \E p \in SeqProcs :
        /\ Returned(p, "GetDial")
        /\ op[p].id \in DOMAIN lastSet
        /\ lastSet[op[p].id].At > created[op[p].id].UpdatedAt.inst
        /\ res[p].val.Value = lastSet[op[p].id].Value

\* C4: a successful CreateDial returns a dial with value 0, a non-empty id,
\* the name and token it was given, and updated_at the clock's instant at
\* the call, in UTC.
C4_CreateDialStep ==
    \A p \in Procs :
        ( Returns(p, "CreateDial") /\ res'[p].err = NoErr )
        => /\ res'[p].val.Value = 0
           /\ res'[p].val.ID # ""
           /\ res'[p].val.Name = op[p].dname
           /\ res'[p].val.Token = op[p].token
           /\ res'[p].val.UpdatedAt = Time(clock, "UTC")
C4_CreateDialResult == [][C4_CreateDialStep]_vars

\* A CreateDial returned a second dial after the clock had moved on.
C4_Witness ==
    \E p \in Procs :
        /\ Returned(p, "CreateDial")
        /\ res[p].err = NoErr
        /\ res[p].val.ID = NewID(2)
        /\ res[p].val.UpdatedAt.inst = MaxTime

\* C5: a GetDial on the id of a created dial, with no successful SetDial on
\* it since its creation, returns a record equal in every field to the one
\* CreateDial returned.
C5_GetAfterCreate ==
    \A p \in SeqProcs :
        ( /\ Returned(p, "GetDial")
          /\ op[p].id \in DOMAIN created
          /\ op[p].id \notin DOMAIN lastSet )
        => /\ res[p].err = NoErr
           /\ res[p].val = created[op[p].id]

\* A GetDial returned a created dial that no SetDial has touched.
C5_Witness ==
    \E p \in SeqProcs :
        /\ Returned(p, "GetDial")
        /\ op[p].id \in DOMAIN created
        /\ op[p].id \notin DOMAIN lastSet
        /\ res[p].err = NoErr

\* C6: after a successful SetBoard(b, token, [d1, d2]) with d1 and d2 both
\* existing, GetBoard(b) succeeds and its dials are exactly two: the current
\* records of d1 and of d2, in that order.
C6_GetBoardTwoDials ==
    \A p \in SeqProcs :
        ( /\ Returned(p, "GetBoard")
          /\ op[p].id \in DOMAIN lastRefs
          /\ Len(lastRefs[op[p].id].refs) = 2
          /\ \A i \in 1..2 : lastRefs[op[p].id].refs[i] \in DOMAIN created )
        => /\ res[p].err = NoErr
           /\ res[p].val.Dials = <<Current(lastRefs[op[p].id].refs[1]),
                                   Current(lastRefs[op[p].id].refs[2])>>

\* A GetBoard returned two different dials in the order [k2, k1], the second
\* having been set by a SetDial.
C6_Witness ==
    \E p \in SeqProcs :
        /\ Returned(p, "GetBoard")
        /\ op[p].id \in DOMAIN lastRefs
        /\ lastRefs[op[p].id].refs = <<NewID(2), NewID(1)>>
        /\ NewID(1) \in DOMAIN lastSet
        /\ Len(res[p].val.Dials) = 2
        /\ res[p].val.Dials[2].Value = lastSet[NewID(1)].Value

\* C7: SetBoard succeeds on an existing board with the right token whatever
\* dials the list names, existing or not; a GetBoard on a board whose list
\* names a dial that does not exist succeeds, returns the existing dials of
\* the list in order without the missing ones, and logs at least one
\* "GetDial error" record, each naming a missing dial.
C7_SetBoardStep ==
    \A p \in Procs :
        ( /\ Returns(p, "SetBoard")
          /\ op[p].id \in DOMAIN madeBoard
          /\ op[p].token = madeBoard[op[p].id].Token )
        => res'[p].err = NoErr
C7_GetBoardSkips ==
    \A p \in SeqProcs :
        ( /\ Returned(p, "GetBoard")
          /\ op[p].id \in DOMAIN lastRefs
          /\ \E i \in 1..Len(lastRefs[op[p].id].refs) :
                lastRefs[op[p].id].refs[i] \notin DOMAIN created )
        => /\ res[p].err = NoErr
           /\ res[p].val.Dials = Resolved(lastRefs[op[p].id].refs)
           /\ Len(logs[p]) >= 1
           /\ \A k \in 1..Len(logs[p]) :
                /\ logs[p][k].msg = "GetDial error"
                /\ logs[p][k].id \notin DOMAIN created
C7_MissingDialSkipped == [][C7_SetBoardStep /\ C7_GetBoardSkips']_vars

\* A GetBoard on a board naming an existing and a missing dial returned the
\* existing one alone and logged one record.
C7_Witness ==
    \E p \in SeqProcs :
        /\ Returned(p, "GetBoard")
        /\ res[p].err = NoErr
        /\ op[p].id \in DOMAIN lastRefs
        /\ lastRefs[op[p].id].refs = <<NewID(1), NewID(2)>>
        /\ NewID(2) \notin DOMAIN created
        /\ Len(res[p].val.Dials) = 1
        /\ res[p].val.Dials[1].ID = NewID(1)
        /\ Len(logs[p]) = 1

\* C8: if a board's list names dial d and a SetDial(d, token, v) succeeded
\* after the board's last SetBoard, a GetBoard on the board shows d, and
\* shows it with the value of the last such SetDial.
C8_BoardResolvesLive ==
    \A p \in SeqProcs :
        ( Returned(p, "GetBoard") /\ op[p].id \in DOMAIN lastRefs )
        => \A i \in 1..Len(lastRefs[op[p].id].refs) :
             LET d == lastRefs[op[p].id].refs[i]
             IN  d \in setSince[op[p].id]
                 => /\ res[p].err = NoErr
                    /\ \E k \in 1..Len(res[p].val.Dials) :
                          res[p].val.Dials[k].ID = d
                    /\ \A k \in 1..Len(res[p].val.Dials) :
                          res[p].val.Dials[k].ID = d
                          => res[p].val.Dials[k].Value = lastSet[d].Value

\* A GetBoard showed a dial with a value set after the board's last SetBoard.
C8_Witness ==
    \E p \in SeqProcs :
        /\ Returned(p, "GetBoard")
        /\ res[p].err = NoErr
        /\ op[p].id \in DOMAIN lastRefs
        /\ lastRefs[op[p].id].refs = <<NewID(1)>>
        /\ NewID(1) \in setSince[op[p].id]
        /\ Len(res[p].val.Dials) = 1
        /\ res[p].val.Dials[1].Value = lastSet[NewID(1)].Value
        /\ res[p].val.Dials[1].Value # 0

\* C9: after a successful SetBoard(b, token, S) the stored list of b is S:
\* the same entries in the same order and number, whatever was stored before.
C9_SetBoardStep ==
    \A p \in Procs :
        ( Returns(p, "SetBoard") /\ res'[p].err = NoErr )
        => StoredRefs(db', op[p].id) = op[p].dials
C9_SetBoardReplaces == [][C9_SetBoardStep]_vars

\* A SetBoard with the empty list succeeded on a board whose list was not
\* empty, and the board now stores no reference.
C9_Witness ==
    \E p \in Procs :
        /\ Returned(p, "SetBoard")
        /\ res[p].err = NoErr
        /\ op[p].dials = <<>>
        /\ lastRefs[op[p].id].over
        /\ StoredRefs(db, op[p].id) = <<>>

\* Every created dial is stored as the record its successful calls add up to.
StoredIsCurrent ==
    \A d \in DOMAIN created :
        /\ Has(db.dials, d)
        /\ [UnmarshalDial(db.dials[d]) EXCEPT !.UpdatedAt = UTC(@)] = Current(d)

\* C10: with callers running concurrently, every SetDial with the dial's
\* token on an existing dial succeeds and leaves the dial stored with its
\* value and the instant of its write; and every stored dial is always the
\* whole record of the last committed CreateDial or SetDial on it: no commit
\* undoes another's or mixes two.
C10_SetDialStep ==
    \A p \in Procs :
        ( /\ Returns(p, "SetDial")
          /\ op[p].id \in DOMAIN created
          /\ op[p].token = created[op[p].id].Token )
        => /\ res'[p].err = NoErr
           /\ UnmarshalDial(db'.dials[op[p].id]).Value = op[p].value
           /\ UnmarshalDial(db'.dials[op[p].id]).UpdatedAt.inst = clock
C10_WritersSerialized == [][C10_SetDialStep /\ StoredIsCurrent']_vars

\* Two SetDial calls on the same dial overlapped: the second had to wait for
\* the first's transaction, both succeeded, and the dial holds the second's
\* value.
C10_Witness ==
    /\ Returned(1, "SetDial") /\ Returned(2, "SetDial")
    /\ op[1].id = op[2].id
    /\ res[1].err = NoErr /\ res[2].err = NoErr
    /\ waited[2]
    /\ op[1].value # op[2].value
    /\ lastSet[op[2].id].Value = op[2].value
    /\ UnmarshalDial(db.dials[op[2].id]).Value = op[2].value

\* C11: GetBoard is not atomic across its per-dial reads.  Each lookup of a
\* reference reads the store as committed at the moment of that lookup, not
\* as of the call's start: the record it adds for a created dial is the one
\* the successful calls so far add up to.  So with a writer running, one
\* GetBoard can return dials read at different instants.
C11_LookupStep ==
    \A p \in Procs :
        ( /\ pc[p] = "loop"
          /\ op[p].name = "GetBoard"
          /\ <<pc[p], cur[p]>> # <<pc'[p], cur'[p]>>
          /\ cur[p].b.Dials[cur[p].i].ID \in DOMAIN created )
        => LET d == cur[p].b.Dials[cur[p].i].ID
               sofar == Append(cur[p].dials, Current(d))
           IN  IF pc'[p] = "loop"
               THEN cur'[p].dials = sofar
               ELSE res'[p].err = NoErr /\ res'[p].val.Dials = sofar
C11_GetBoardReadsPerDial == [][C11_LookupStep]_vars

\* A GetBoard returned the first dial as it was created together with the
\* second dial as set to 33, although the first dial had been set before the
\* second was even created: the store never held the two records together.
C11_Witness ==
    /\ Returned(2, "GetBoard")
    /\ res[2].err = NoErr
    /\ Len(res[2].val.Dials) = 2
    /\ NewID(1) \in DOMAIN lastSet
    /\ NewID(2) \in DOMAIN created
    /\ lastSet[NewID(1)].At < created[NewID(2)].UpdatedAt.inst
    /\ res[2].val.Dials[1] = created[NewID(1)]
    /\ res[2].val.Dials[2].ID = NewID(2)
    /\ res[2].val.Dials[2].Value = 33

\* C12: a created dial or board stays stored and retrievable whatever is
\* called afterwards, with the id, token and name it was created with; a
\* dial's other fields are its value and updated_at, a board's its dials and
\* updated_at.
C12_CreatedStays ==
    /\ \A d \in DOMAIN created :
          /\ Has(db.dials, d)
          /\ UnmarshalDial(db.dials[d]).ID = d
          /\ UnmarshalDial(db.dials[d]).Token = created[d].Token
          /\ UnmarshalDial(db.dials[d]).Name = created[d].Name
    /\ \A b \in DOMAIN madeBoard :
          /\ Has(db.boards, b)
          /\ UnmarshalBoard(db.boards[b]).ID = b
          /\ UnmarshalBoard(db.boards[b]).Token = madeBoard[b].Token
          /\ UnmarshalBoard(db.boards[b]).Name = madeBoard[b].Name
    /\ \A p \in SeqProcs :
          /\ ( Returned(p, "GetDial") /\ op[p].id \in DOMAIN created )
             => /\ res[p].err = NoErr
                /\ res[p].val.ID = op[p].id
                /\ res[p].val.Token = created[op[p].id].Token
                /\ res[p].val.Name = created[op[p].id].Name
          /\ ( Returned(p, "GetBoard") /\ op[p].id \in DOMAIN madeBoard )
             => /\ res[p].err = NoErr
                /\ res[p].val.ID = op[p].id
                /\ res[p].val.Token = madeBoard[op[p].id].Token
                /\ res[p].val.Name = madeBoard[op[p].id].Name

\* A GetDial returned a dial under its name after a SetDial had changed its
\* value and a SetBoard had replaced the board's list.
C12_Witness ==
    \E p \in SeqProcs :
        /\ Returned(p, "GetDial")
        /\ res[p].err = NoErr
        /\ op[p].id \in DOMAIN lastSet
        /\ res[p].val.Value # created[op[p].id].Value
        /\ res[p].val.Name = created[op[p].id].Name
        /\ \E b \in DOMAIN lastRefs : lastRefs[b].over

\* C13: a successful CreateBoard returns a board with no dials, a non-empty
\* id, the name and token it was given and updated_at the clock's instant;
\* a GetBoard on that id before any SetBoard returns the same id, name,
\* token and updated_at, and no dials.
C13_CreateBoardStep ==
    \A p \in Procs :
        ( Returns(p, "CreateBoard") /\ res'[p].err = NoErr )
        => /\ res'[p].val.Dials = <<>>
           /\ res'[p].val.ID # ""
           /\ res'[p].val.Name = op[p].bname
           /\ res'[p].val.Token = op[p].token
           /\ res'[p].val.UpdatedAt.inst = clock
C13_GetBoardFresh ==
    \A p \in SeqProcs :
        ( /\ Returned(p, "GetBoard")
          /\ op[p].id \in DOMAIN madeBoard
          /\ op[p].id \notin DOMAIN lastRefs )
        => /\ res[p].err = NoErr
           /\ res[p].val.ID = madeBoard[op[p].id].ID
           /\ res[p].val.Name = madeBoard[op[p].id].Name
           /\ res[p].val.Token = madeBoard[op[p].id].Token
           /\ res[p].val.UpdatedAt = madeBoard[op[p].id].UpdatedAt
           /\ res[p].val.Dials = <<>>
C13_CreateBoardResult == [][C13_CreateBoardStep /\ C13_GetBoardFresh']_vars

\* A GetBoard returned a board created after the clock had moved on, before
\* any successful SetBoard on it.
C13_Witness ==
    \E p \in SeqProcs :
        /\ Returned(p, "GetBoard")
        /\ res[p].err = NoErr
        /\ op[p].id \in DOMAIN madeBoard
        /\ op[p].id \notin DOMAIN lastRefs
        /\ res[p].val.UpdatedAt.inst = MaxTime
        /\ res[p].val.Dials = <<>>

\* C14: whatever zone the clock reports its instant in, the updated_at that
\* CreateDial, SetDial, CreateBoard and SetBoard store is the clock's instant,
\* the one CreateDial and CreateBoard return is that instant in UTC, and the
\* updated_at of every dial and board that GetDial and GetBoard return (the
\* dials inside a board included) is the stored instant, in UTC.
C14_WriteStep ==
    \A p \in Procs :
        /\ ( Returns(p, "CreateDial") /\ res'[p].err = NoErr )
           => /\ res'[p].val.UpdatedAt = Time(clock, "UTC")
              /\ db'.dials[op[p].id].UpdatedAt = clock
        /\ ( Returns(p, "SetDial") /\ res'[p].err = NoErr )
           => db'.dials[op[p].id].UpdatedAt = clock
        /\ ( Returns(p, "CreateBoard") /\ res'[p].err = NoErr )
           => /\ res'[p].val.UpdatedAt = Time(clock, "UTC")
              /\ db'.boards[op[p].id].UpdatedAt = clock
        /\ ( Returns(p, "SetBoard") /\ res'[p].err = NoErr )
           => db'.boards[op[p].id].UpdatedAt = clock
C14_ReadsInUTC ==
    \A p \in SeqProcs :
        /\ ( Returned(p, "GetDial") /\ res[p].err = NoErr )
           => res[p].val.UpdatedAt = Time(db.dials[op[p].id].UpdatedAt, "UTC")
        /\ ( Returned(p, "GetBoard") /\ res[p].err = NoErr )
           => /\ res[p].val.UpdatedAt =
                    Time(db.boards[op[p].id].UpdatedAt, "UTC")
              /\ \A k \in 1..Len(res[p].val.Dials) :
                    res[p].val.Dials[k].UpdatedAt =
                        Time(db.dials[res[p].val.Dials[k].ID].UpdatedAt, "UTC")
C14_TimesInUTC == [][C14_WriteStep /\ C14_ReadsInUTC']_vars

\* A GetBoard returned, in UTC, a board last written at the last instant
\* and in it a dial that a SetDial wrote at the last instant.
C14_Witness ==
    \E p \in SeqProcs :
        /\ Returned(p, "GetBoard")
        /\ res[p].err = NoErr
        /\ res[p].val.UpdatedAt = Time(MaxTime, "UTC")
        /\ Len(res[p].val.Dials) >= 1
        /\ res[p].val.Dials[1].ID \in DOMAIN lastSet
        /\ res[p].val.Dials[1].UpdatedAt = Time(MaxTime, "UTC")

\* Process p invokes an operation of the service in this step.
Invoked(p) ==
    /\ CanCall(p)
    /\ op'[p].name \notin {"none", "NewService"}
    /\ \/ pc'[p] \in {"txn", "wait"}
       \/ pc'[p] = "done" /\ <<pc[p], op[p], res[p]>> # <<pc'[p], op'[p], res'[p]>>

\* C15: every operation checks the caller's cancellation signal before it
\* starts a transaction: invoked with a context that is already cancelled,
\* it returns an error at once, opens no transaction and leaves the store
\* unchanged.
C15_CancelledStep ==
    \A p \in Procs :
        ( Invoked(p) /\ cancelled[p] )
        => /\ pc'[p] = "done"
           /\ res'[p].err # NoErr
           /\ tx'[p] = NoTx
           /\ writer' = writer
           /\ db' = db
C15_CancelledCallRefused == [][C15_CancelledStep]_vars

\* C16: a creating operation returns a value or an error, never both:
\* whenever NewService, CreateDial or CreateBoard has returned an error, a
\* failed commit included, it has returned no service, dial or board.
C16_ValueOrError ==
    \A p \in Procs :
        ( /\ pc[p] = "done"
          /\ op[p].name \in {"NewService", "CreateDial", "CreateBoard"}
          /\ res[p].err # NoErr )
        => res[p].val = NilVal

\* C17: NewService ensures both key spaces in one transaction: when it
\* returns without error both exist, when it returns an error the store is
\* as it was before the call, and in either case every key space that
\* existed before holds exactly the records it held.
C17_NewServiceStep ==
    \A p \in Procs :
        Returns(p, "NewService")
        => /\ res'[p].err = NoErr => DOMAIN db' = {"dials", "boards"}
           /\ res'[p].err # NoErr => db' = db
           /\ \A name \in DOMAIN db :
                 name \in DOMAIN db' /\ db'[name] = db[name]
C17_NewServiceAtomic == [][C17_NewServiceStep]_vars

\* A service was constructed without error on a store that holds a board and
\* a dial a SetDial has written, and the dial is stored as it was written.
C17_Witness ==
    \E p \in Procs :
        /\ Returned(p, "NewService")
        /\ res[p].err = NoErr
        /\ NewID(1) \in DOMAIN lastSet
        /\ Has(db.boards, NewID(1))
        /\ UnmarshalDial(db.dials[NewID(1)]).Value = lastSet[NewID(1)].Value

\* The store with every token replaced as f says; nothing else differs.
Retoken(store, f) ==
    [dials |-> [k \in DOMAIN store.dials |->
                  [store.dials[k] EXCEPT !.Token = f[@]]],
     boards |-> [k \in DOMAIN store.boards |->
                  [store.boards[k] EXCEPT !.Token = f[@]]]]
Retokenings == [Tokens \cup {""} -> Tokens]

\* Process p has answered a request of the named handler.
Responded(p, handler) ==
    req[p].stage = "responded" /\ req[p].handler = handler

\* C18: no response of the dial and board handlers contains a token.  The
\* body of every successful response has the fields id, name, value (or
\* dials) and updated_at only, the dials inside a board likewise; and the
\* bodies getDial and getBoard answer with are the ones they would answer with
\* on any store that differs from this one only in its tokens.
C18_NoTokenInResponse ==
    \A p \in SeqProcs :
        ( req[p].stage = "responded" /\ resp[p].status \in {200, 201} )
        => LET body == resp[p].body
           IN  /\ req[p].handler \in {"createDial", "getDial", "setDialValue"}
                  => DOMAIN body = {"id", "name", "value", "updated_at"}
               /\ req[p].handler \in {"createBoard", "getBoard", "setBoardDials"}
                  => /\ DOMAIN body = {"id", "name", "dials", "updated_at"}
                     /\ \A k \in 1..Len(body.dials) :
                           DOMAIN body.dials[k] =
                               {"id", "name", "value", "updated_at"}
               /\ \A f \in Retokenings :
                     LET t == BeginTx(Retoken(db, f))
                     IN  /\ Responded(p, "getDial")
                            => body = EncodeDial(GetDialTxn(t, req[p].id).val)
                         /\ Responded(p, "getBoard")
                            => /\ [body EXCEPT !.dials = <<>>] =
                                    EncodeBoard(BoardResult(
                                        [b |-> GetBoardTxn(t, req[p].id).val,
                                         dials |-> <<>>]))
                               /\ \A k \in 1..Len(body.dials) :
                                     body.dials[k] = EncodeDial(
                                         GetDialTxn(t, body.dials[k].id).val)

\* getBoard answered 200 with a board that shows a dial, and the dial and
\* the board are stored with a token.
C18_Witness ==
    \E p \in SeqProcs :
        /\ Responded(p, "getBoard")
        /\ resp[p].status = 200
        /\ Len(resp[p].body.dials) = 1
        /\ db.dials[resp[p].body.dials[1].id].Token = "MYTOKEN"
        /\ db.boards[req[p].id].Token = "MYTOKEN"
        /\ resp[p].body.dials[1].value = 33

\* The handler of process p acts on what the service returned in this step.
HandlerActs(p, stage) ==
    /\ pc[p] = "done"
    /\ req[p].handler \in {"setDialValue", "setBoardDials"}
    /\ req[p].stage = stage
    /\ req'[p].stage # stage

\* C19: setDialValue and setBoardDials answer a failed set with 401 for
\* Unauthorized, 404 for DialNotFound or BoardNotFound and 500 for any other
\* error; they call GetDial or GetBoard only after a set that succeeded; and
\* when the get after a successful set fails they answer 500.
C19_SetHandlerStep ==
    \A p \in Procs :
        /\ \A stage \in {"SetDial", "SetBoard"} :
              ( HandlerActs(p, stage) /\ res[p].err # NoErr )
              => /\ req'[p].stage = "responded"
                 /\ resp'[p].status =
                       IF res[p].err = ErrUnauthorized THEN 401
                       ELSE IF res[p].err \in {ErrDialNotFound, ErrBoardNotFound}
                            THEN 404
                            ELSE 500
        /\ ( /\ Invoked(p)
             /\ req[p].handler \in {"setDialValue", "setBoardDials"}
             /\ op'[p].name \in {"GetDial", "GetBoard"} )
           => /\ op[p].name \in {"SetDial", "SetBoard"}
              /\ res[p].err = NoErr
        /\ \A stage \in {"GetDial", "GetBoard"} :
              ( HandlerActs(p, stage) /\ res[p].err # NoErr )
              => /\ req'[p].stage = "responded"
                 /\ resp'[p].status = 500
C20_SlackStep ==
    \A p \in SeqProcs :
        LET r == req[p]
            pair == <<r.teamID, r.userID>>
        IN  r.handler = "slack.SetDialValue" =>
              /\ (r.stage = "CreateDial" /\ pc[p] = "idle" /\ pc'[p] # "idle")
                    => ~Has(firstDial, pair)
              /\ (/\ r.stage = "SetDial"
                  /\ req'[p].stage = "responded"
                  /\ resp'[p] = Result(NoErr)
                  /\ Has(firstDial, pair))
                    => /\ r.dialID = firstDial[pair]
                       /\ UnmarshalDial(db.dials[r.dialID]).Value = r.value

\* Two different pairs that were served have different dials.
C20_DistinctDials ==
    \A q1, q2 \in DOMAIN firstDial : q1 # q2 => firstDial[q1] # firstDial[q2]

\* Two pairs that were served and have different keys have different dials.
C20_DistinctDialsPerKey ==
    \A q1, q2 \in DOMAIN firstDial :
        getUserKey(q1[1], q1[2]) # getUserKey(q2[1], q2[2])
            => firstDial[q1] # firstDial[q2]

\* C20: the Slack SetDialValue creates a dial through the core service only
\* the first time it is called for a (team, user) pair; every later
\* sequential call for the pair creates nothing and sets the value on the
\* same dial, and a different user or a different team gets a different dial.
C20_SlackDialPerPair == [][C20_SlackStep /\ C20_DistinctDials']_vars

\* What SetDialValue keeps: one dial per key teamID ":" userID.
C20_SlackDialPerKey == [][C20_SlackStep /\ C20_DistinctDialsPerKey']_vars

\* Two calls for one pair were served, and pairs differing in the user only
\* and in the team only got dials of their own.
C20_Witness ==
    /\ Has(firstDial, <<"team", "user">>)
    /\ \/ /\ Has(firstDial, <<"team", "user:user">>)
          /\ firstDial[<<"team", "user:user">>] # firstDial[<<"team", "user">>]
       \/ /\ Has(firstDial, <<"team:user", "user">>)
          /\ firstDial[<<"team:user", "user">>] # firstDial[<<"team", "user">>]
    /\ \E p \in SeqProcs :
          /\ req[p].handler = "slack.SetDialValue"
          /\ req[p].stage = "responded"
          /\ resp[p] = Result(NoErr)
          /\ <<req[p].teamID, req[p].userID>> = <<"team", "user">>
          /\ req[p].dialID = firstDial[<<"team", "user">>]
          /\ lastSet[req[p].dialID].At > created[req[p].dialID].UpdatedAt.inst

\* C21: under fair scheduling every GetBoard call eventually returns, also
\* while another caller runs CreateDial, SetDial or SetBoard.
C21_GetBoardReturns ==
    \A p \in Procs :
        (op[p].name = "GetBoard" /\ pc[p] \in {"txn", "loop"}) ~> (pc[p] = "done")

\* GetBoard holds its board transaction and waits to begin a dial's, while a
\* commit waits for the board transaction to be closed.
C21_Blocked ==
    \E p \in Procs :
        /\ pc[p] = "loop"
        /\ tx[p].open
        /\ remap \notin {NoProc, p}
        /\ ~ENABLED (StepLiveReader(p) \/ StepLiveWriter(remap))

\* The error the body of p's read-write call ends with if storage works.
BodyErr(p) ==
    LET now == Time(clock, "UTC")
        c == op[p]
    IN  CASE c.name = "CreateDial" ->
                CreateDialTxn(tx[p], c.id, c.dname, c.token, now).err
          [] c.name = "SetDial" ->
                SetDialTxn(tx[p], c.id, c.token, c.value, now).err
          [] c.name = "CreateBoard" ->
                CreateBoardTxn(tx[p], c.id, c.bname, c.token, now).err
          [] c.name = "SetBoard" ->
                SetBoardTxn(tx[p], c.id, c.token, c.dials, now).err

\* The call p is in fails in this step because of the store: its db.Begin
\* fails, or its body got through and its Put or its Commit fails.
StorageFails(p) ==
    \/ pc[p] # "txn" /\ fault = FailBegin
    \/ pc[p] = "txn" /\ fault \in {FailPut, FailCommit} /\ BodyErr(p) = NoErr

\* A mutating operation of p returns in this step.
MutatorReturns(p) ==
    /\ op'[p].name \in {"CreateDial", "SetDial", "CreateBoard", "SetBoard"}
    /\ pc'[p] = "done"
    /\ \/ pc[p] \in {"txn", "wait"}
       \/ CanCall(p) /\ <<pc[p], op[p], res[p]>> # <<pc'[p], op'[p], res'[p]>>

C22_FailedStep ==
    \A p \in Procs :
        MutatorReturns(p) =>
          /\ res'[p].err # NoErr
                => /\ db' = db
                   /\ pc[p] = "txn" => db = Committed(tx[p])
          /\ StorageFails(p)
                => res'[p].err \notin {NoErr, ErrDialNotFound, ErrBoardNotFound,
                                       ErrUnauthorized}

\* C22: when a mutating operation returns an error the store is as it was
\* before the call, and a begin, put or commit that fails is reported as an
\* error that is none of DialNotFound, BoardNotFound and Unauthorized.
C22_ErrorsLeaveStore == [][C22_FailedStep]_vars

\* A SetBoard on an existing board with the right token has returned the
\* error of its failed commit, and the board is stored as it was created.
C22_Witness ==
    \E p \in Procs :
        /\ pc[p] = "done"
        /\ op[p].name = "SetBoard"
        /\ res[p].err = ErrCommit
        /\ op[p].dials # <<>>
        /\ Has(db.boards, op[p].id)
        /\ UnmarshalBoard(db.boards[op[p].id]).Dials = <<>>

\* C23: the dials GetBoard returns are the stored references whose dial is
\* in the store, in stored order and as often as they are listed; the
\* references it logs a "GetDial error" for are the others, so the two
\* counts add up to the number of stored references.
C23_GetBoardSubsequence ==
    \A p \in SeqProcs :
        ( Returned(p, "GetBoard") /\ res[p].err = NoErr )
        => LET refs == StoredRefs(db, op[p].id)
               got == [i \in 1..Len(res[p].val.Dials) |-> res[p].val.Dials[i].ID]
               skipped == [k \in 1..Len(logs[p]) |-> logs[p][k].id]
               Found(d) == Has(db.dials, d)
               Missing(d) == ~Has(db.dials, d)
           IN  /\ got = SelectSeq(refs, Found)
               /\ skipped = SelectSeq(refs, Missing)
               /\ \A k \in 1..Len(logs[p]) : logs[p][k].msg = "GetDial error"
               /\ Len(res[p].val.Dials) + Len(logs[p]) = Len(refs)

\* A GetBoard on a board listing one existing dial twice returned it twice.
C23_Witness ==
    \E p \in SeqProcs :
        /\ Returned(p, "GetBoard")
        /\ res[p].err = NoErr
        /\ StoredRefs(db, op[p].id) = <<NewID(1), NewID(1)>>
        /\ Len(res[p].val.Dials) = 2
        /\ res[p].val.Dials[1] = res[p].val.Dials[2]
        /\ logs[p] = <<>>

\* A step of a GetDial or GetBoard of p.
ReadStep(p) ==
    /\ op'[p].name \in {"GetDial", "GetBoard"}
    /\ <<pc[p], op[p], tx[p], cur[p], res[p], logs[p]>>
          # <<pc'[p], op'[p], tx'[p], cur'[p], res'[p], logs'[p]>>

\* After a GetBoard that skipped references the board is stored as its last
\* SetBoard left it: the list it was given, skipped references included.
C24_SkippedStay ==
    \A p \in SeqProcs :
        ( Returned(p, "GetBoard") /\ res[p].err = NoErr /\ logs[p] # <<>> )
        => /\ StoredRefs(db, op[p].id) = lastRefs[op[p].id].refs
           /\ \A k \in 1..Len(logs[p]) :
                 \E i \in 1..Len(lastRefs[op[p].id].refs) :
                    lastRefs[op[p].id].refs[i] = logs[p][k].id

\* C24: GetDial and GetBoard never change the store: no step of theirs
\* changes a record, and after a GetBoard that skipped references the board
\* still stores them where they were, under the same updated_at.
C24_ReadsChangeNothing ==
    [][(\A p \in SeqProcs : ReadStep(p) => db' = db) /\ C24_SkippedStay']_vars

\* A GetBoard skipped the second of two references; the board still stores
\* both, under a time that lies before the present instant.
C24_Witness ==
    \E p \in SeqProcs :
        /\ Returned(p, "GetBoard")
        /\ res[p].err = NoErr
        /\ Len(logs[p]) = 1
        /\ logs[p][1].id = NewID(2)
        /\ StoredRefs(db, op[p].id) = <<NewID(1), NewID(2)>>
        /\ db.boards[op[p].id].UpdatedAt < clock

\* A step of p's CreateDial or SetDial leaves the boards as they are stored,
\* a step of its CreateBoard or SetBoard the dials.
C25_KeySpaceStep ==
    \A p \in SeqProcs :
        /\ op'[p].name \in {"CreateDial", "SetDial"} /\ pc'[p] # pc[p]
              => db'.boards = db.boards
        /\ op'[p].name \in {"CreateBoard", "SetBoard"} /\ pc'[p] # pc[p]
              => db'.dials = db.dials

\* C25: dial and board operations touch disjoint key spaces: CreateDial and
\* SetDial change no stored board, so a board's updated_at stays when a
\* dial it refers to is set; CreateBoard and SetBoard change no stored dial,
\* also when the board's id and a dial's id are the same string.
C25_DisjointKeySpaces == [][C25_KeySpaceStep]_vars

\* A dial and a board exist under the same id string k1; the board refers
\* to the dial, and the dial was set after the board's last SetBoard, at an
\* instant later than the one the board stores.
C25_Witness ==
    /\ NewID(1) \in DOMAIN lastSet
    /\ NewID(1) \in DOMAIN lastRefs
    /\ StoredRefs(db, NewID(1)) = <<NewID(1)>>
    /\ NewID(1) \in setSince[NewID(1)]
    /\ db.boards[NewID(1)].UpdatedAt < lastSet[NewID(1)].At
    /\ db.dials[NewID(1)].Value = lastSet[NewID(1)].Value
    /\ db.dials[NewID(1)].Name # db.boards[NewID(1)].Name

\* C26: every stored board holds dial identifiers only: each entry of its
\* list has an empty name and token, the value 0 and the zero updated_at,
\* whatever the dials are and whatever GetBoard has resolved.
C26_BoardsStoreIdsOnly ==
    \A b \in DOMAIN db.boards :
        \A i \in 1..Len(db.boards[b].Dials) :
            LET e == db.boards[b].Dials[i]
            IN  /\ e.Name = ""
                /\ e.Token = ""
                /\ e.Value = 0
                /\ e.UpdatedAt = ZeroInst
                /\ e = MarshalDial(MinimalDial(e.ID))

\* A GetBoard has returned a dial with the value a SetDial gave it and its
\* name and token, and the board's stored entry for it holds the id alone.
C26_Witness ==
    \E p \in SeqProcs :
        /\ Returned(p, "GetBoard")
        /\ res[p].err = NoErr
        /\ Len(res[p].val.Dials) >= 1
        /\ res[p].val.Dials[1].Value = 33
        /\ res[p].val.Dials[1].Name = "TEST-DIAL"
        /\ db.boards[op[p].id].Dials[1].ID = res[p].val.Dials[1].ID
        /\ db.boards[op[p].id].Dials[1].Value = 0
        /\ db.dials[res[p].val.Dials[1].ID].Value = 33

\* The transactions of p's call that are open at present.
OpenTxs(p) == begun[p].ro + begun[p].rw - begun[p].closed

DialsRead(p) ==
    IF pc[p] = "loop" THEN cur[p].dials
    ELSE IF pc[p] = "done" /\ res[p].err = NoErr /\ op[p].name = "GetBoard"
    THEN res[p].val.Dials
    ELSE IF pc[p] = "done" /\ res[p].err = NoErr /\ op[p].name = "GetDial"
    THEN <<res[p].val>>
    ELSE <<>>

\* Every dial read pairs a value with the instant of the committed write
\* that gave the dial this value.
C28_WholeRecords ==
    \A p \in Procs :
        \A i \in 1..Len(DialsRead(p)) :
            LET d == DialsRead(p)[i]
            IN  /\ [Value |-> d.Value, At |-> d.UpdatedAt.inst] \in written[d.ID]
                /\ d.UpdatedAt.loc = "UTC"
                /\ [d EXCEPT !.Value = 0, !.UpdatedAt = ZeroTime]
                      = [created[d.ID] EXCEPT !.Value = 0, !.UpdatedAt = ZeroTime]

\* A read-only transaction begins on the store as committed at that instant
\* and keeps this view; GetDial returns the record of its view, and a turn
\* of GetBoard's loop the record committed at the instant of the turn.
C28_ReadStep ==
    \A p \in Procs :
        /\ ( op'[p].name \in {"GetDial", "GetBoard"} /\ pc[p] # "txn"
             /\ pc'[p] = "txn" )
              => Committed(tx'[p]) = db
        /\ ( op[p].name \in {"GetDial", "GetBoard"} /\ pc[p] \in {"txn", "loop"}
             /\ pc'[p] \in {"txn", "loop"} )
              => tx'[p] = tx[p]
        /\ ( Returns(p, "GetDial") /\ res'[p].err = NoErr )
              => res'[p].val = [UnmarshalDial(tx[p].dials[op[p].id])
                                  EXCEPT !.UpdatedAt = UTC(@)]
        /\ ( pc[p] = "loop" /\ Len(DialsRead(p)') > Len(cur[p].dials) )
              => LET d == DialsRead(p)'[Len(DialsRead(p)')]
                 IN  d = [UnmarshalDial(db.dials[d.ID]) EXCEPT !.UpdatedAt = UTC(@)]

\* C28: each dial in a GetDial or GetBoard result is the dial's record as
\* committed at one instant during the call: its value and updated_at come
\* from one committed CreateDial or SetDial, never from a write in progress
\* and never from two writes.
C28_SnapshotPerDial == [][C28_ReadStep /\ C28_WholeRecords']_vars

\* A GetBoard has returned dial k1 as the first caller set it and dial k2
\* as created; k1 has two committed writes, and a further SetDial of the
\* first caller on k1 is in progress.
C28_Witness ==
    /\ Returned(2, "GetBoard")
    /\ res[2].err = NoErr
    /\ Len(res[2].val.Dials) = 2
    /\ res[2].val.Dials[1].Value = 33
    /\ res[2].val.Dials[2].Value = 0
    /\ Cardinality(written[NewID(1)]) = 2
    /\ pc[1] = "txn"
    /\ op[1].name = "SetDial"
    /\ op[1].id = NewID(1)

\* C29: when the board page handles a valid add-dial POST whose SetBoard
\* succeeds, the board's stored references afterwards are those stored just
\* before followed by the new dial id: none is dropped, neither one that
\* does not resolve nor one a concurrent add-dial request added.
C29_AddDialStep ==
    \A p \in ConcProcs :
        ( /\ req[p].handler = "ui.GetBoard"
          /\ req[p].stage = "SetBoard"
          /\ Returns(p, "SetBoard")
          /\ res'[p].err = NoErr )
        => StoredRefs(db', req[p].id)
              = Append(StoredRefs(db, req[p].id), req[p].body.dialID)
C29_AddDialKeepsRefs == [][C29_AddDialStep]_vars

\* An add-dial POST has succeeded and the board no longer refers to the
\* missing dial k2 it referred to before.
C29_Dropped ==
    \E p \in ConcProcs :
        /\ req[p].handler = "ui.GetBoard"
        /\ req[p].stage = "responded"
        /\ resp[p].page = "board"
        /\ resp[p].info = NilVal
        /\ req[p].method = "POST"
        /\ \A i \in 1..Len(StoredRefs(db, req[p].id)) :
              StoredRefs(db, req[p].id)[i] # NewID(2)

\* C30: SetDialValue creates at most one dial per (team, user) pair, also
\* when first calls for a pair run concurrently: the pair's stored mapping
\* never changes once written, and no call sets its value on a dial the
\* mapping does not point to.
C30_DialsOf(store, key) ==
    {d \in DOMAIN store.dials : UnmarshalDial(store.dials[d]).Name = key}
C30_OneDial ==
    \A userID \in UserIDs :
        Cardinality(C30_DialsOf(db, getUserKey("team", userID))) <= 1
C30_MappingKept ==
    \A key \in DOMAIN users : Has(users', key) /\ users'[key] = users[key]
C30_SetsMappedDial ==
    \A p \in ConcProcs :
        ( /\ req[p].handler = "slack.SetDialValue"
          /\ Returns(p, "SetDial")
          /\ res'[p].err = NoErr )
        => /\ Has(users, req[p].key)
           /\ users[req[p].key] = op[p].id
C30_OneDialPerPair ==
    [][C30_OneDial' /\ C30_MappingKept /\ C30_SetsMappedDial]_vars

\* Two calls for one user have both returned nil, having set their values
\* on different dials.
C30_TwoDials ==
    /\ \A p \in ConcProcs :
          /\ req[p].handler = "slack.SetDialValue"
          /\ req[p].stage = "responded"
          /\ resp[p] = Result(NoErr)
    /\ req[1].key = req[2].key
    /\ req[1].dialID # req[2].dialID

====
